---- MODULE Spec2Model ----
(***************************************************************************)
(* Registration / Action / Token workflow of the stacktask API.            *)
(*                                                                         *)
(* The database tables (Registration, Action, Token, Notification) and the *)
(* identity backend (users, projects, role grants) are the state.  Every   *)
(* HTTP handler of stacktask/api/v1/views.py is one action; a handler runs *)
(* synchronously, so under Spec it is one atomic step.  SpecConc adds two  *)
(* request workers that run the approve and the token redemption handlers  *)
(* step by step, each on its own in-memory copy of the rows it loaded.     *)
(***************************************************************************)
EXTENDS Integers, Sequences, FiniteSets, TLC

\* ------------------------------------------------------------------ bounds
MaxTasks == 2
MaxTokens == 2
MaxNotes == 2
MaxCalls == 2
MaxFlakyTasks == 1

\* ---------------------------------------------------------------- universe
Null == "null"
NoUser == [email |-> Null, password |-> Null]
Usernames == {"u1"}
Emails == {"e1", "e2"}
ProjectNames == {"p1"}
Views == {"CreateProject", "AttachUser", "ResetPassword"}
EmptyMap == [x \in {} |-> Null]

VARIABLES
    settings,        \* ACTIONVIEW_SETTINGS: view -> additional action names
    backend,         \* "up", or "flaky": a backend call may raise
    tasks,           \* Registration rows, in creation order (uuid = index)
    tokens,          \* Token rows
    nextToken,       \* number of Token rows created so far
    notifications,   \* Notification rows, in creation order
    users,           \* identity backend: username -> user or NoUser
    projects,        \* identity backend: project names (a project's id is
                     \* represented by its name)
    grants,          \* identity backend: <<username, role, project>>
    hist,            \* call counters of the backend and of the phases
    procs            \* the step-by-step request workers of SpecConc

vars == <<settings, backend, tasks, tokens, nextToken, notifications, users,
          projects, grants, hist, procs>>

\* ------------------------------------------------------------ action types
required(name) ==
    CASE name = "NewUser" -> {"username", "email", "project_id", "role"}
      [] name = "NewProject" -> {"project_name", "username", "email"}
      [] name = "ResetUser" -> {"username", "email"}

token_fields(name) ==
    CASE name = "NewUser" -> {"password"}
      [] name = "NewProject" -> {"password"}
      [] name = "ResetUser" -> {"password"}

default_roles == <<"Member", "project_owner">>

default_action(view) ==
    CASE view = "CreateProject" -> "NewProject"
      [] view = "AttachUser" -> "NewUser"
      [] view = "ResetPassword" -> "ResetUser"

\* The serializer of an action: the fields it requires and the request lacks.
serializer_errors(name, data) == required(name) \ DOMAIN data

\* serializer.validated_data: the request restricted to the action's fields.
validated_data(name, data) == [f \in required(name) |-> data[f]]

\* Action.objects.create(...): a new row with the model's defaults.
NewAction(name, data, order) ==
    [action_name |-> name, action_data |-> data, cache |-> EmptyMap,
     state |-> "default", valid |-> FALSE, need_token |-> TRUE,
     order |-> order]

\* -------------------------------------------------------- identity backend
\* The backend and the call counters travel together through a phase as one
\* record w = [users, projects, grants, hist].
find_user(w, name) == w.users[name]

find_project(w, project_name) ==
    IF project_name \in w.projects THEN project_name ELSE Null

get_project(w, project_id) ==
    IF project_id \in w.projects THEN project_id ELSE Null

Bump(f, k) == [f EXCEPT ![k] = @ + 1]

create_user(w, name, password, email, project_id) ==
    [w EXCEPT !.users[name] = [email |-> email, password |-> password],
              !.hist.create_user = Bump(@, name)]

update_user_password(w, name, password) ==
    [w EXCEPT !.users[name].password = password,
              !.hist.update_user_password = Bump(@, name)]

add_user_role(w, name, role, project) ==
    [w EXCEPT !.grants = @ \cup {<<name, role, project>>}]

create_project(w, project_name) ==
    [w EXCEPT !.projects = @ \cup {project_name},
              !.hist.create_project = Bump(@, project_name)]

\* ------------------------------------------------------ results of a phase
Returned(act, w) == [act |-> act, w |-> w, raised |-> FALSE]
Raised(act, w) == [act |-> act, w |-> w, raised |-> TRUE]

\* A fault is a backend call that fails (the backend is unreachable): in the
\* phase `phase` of the action at position `idx`, point 0 is the first lookup
\* of the validation, point k > 0 the k-th mutating call.
NoFault == [phase |-> "none", idx |-> 0, point |-> 0]
Faults ==
    {NoFault} \cup
    [phase : {"pre_approve", "post_approve", "submit"}, idx : 1..2,
     point : 0..3]

FaultPoint(fault, phase, idx) ==
    IF fault.phase = phase /\ fault.idx = idx THEN fault.point ELSE -1

\* ------------------------------------------------------------------ NewUser
\* A validation that asks for a token also for an existing user.
NewUser_validate_token_always(act, ks, w) ==
    LET d == act.action_data
        user == find_user(w, d.username)
    IN  IF ~("admin" \in ks.roles \/ ks.project_id = d.project_id)
        THEN act
        ELSE IF get_project(w, d.project_id) = Null
        THEN act
        ELSE IF user # NoUser
        THEN IF user.email = d.email
             THEN [act EXCEPT !.valid = TRUE, !.state = "existing"]
             ELSE act
        ELSE [act EXCEPT !.valid = TRUE]

NewUser_validate(act, ks, w) ==
    LET d == act.action_data
        user == find_user(w, d.username)
    IN  IF ~("admin" \in ks.roles \/ ks.project_id = d.project_id)
        THEN act
        ELSE IF get_project(w, d.project_id) = Null
        THEN act
        ELSE IF user # NoUser
        THEN IF user.email = d.email
             THEN [act EXCEPT !.valid = TRUE, !.need_token = FALSE,
                              !.state = "existing"]
             ELSE act
        ELSE [act EXCEPT !.valid = TRUE]

\* A submit that creates the user and grants no role.
NewUser_submit_no_role(act, ks, w, token_data, fp) ==
    IF fp = 0 THEN Raised(act, w)
    ELSE
    LET a == NewUser_validate(act, ks, w)
        d == a.action_data
    IN  IF ~a.valid THEN Returned(a, w)
        ELSE IF a.state = "default"
        THEN IF "password" \notin DOMAIN token_data \/ fp = 1
                \/ find_user(w, d.username) # NoUser
             THEN Raised(a, w)
             ELSE Returned(a, create_user(w, d.username, token_data.password,
                                          d.email, d.project_id))
        ELSE Returned(a, w)

NewUser_submit(act, ks, w, token_data, fp) ==
    IF fp = 0 THEN Raised(act, w)
    ELSE
    LET a == NewUser_validate(act, ks, w)
        d == a.action_data
    IN  IF ~a.valid THEN Returned(a, w)
        ELSE IF a.state = "default"
        THEN IF "password" \notin DOMAIN token_data \/ fp = 1
                \/ find_user(w, d.username) # NoUser
             THEN Raised(a, w)
             ELSE LET w1 == create_user(w, d.username, token_data.password,
                                        d.email, d.project_id)
                  IN  IF fp = 2 THEN Raised(a, w1)
                      ELSE Returned(a, add_user_role(w1, d.username, d.role,
                                                     d.project_id))
        ELSE IF fp = 1 THEN Raised(a, w)
             ELSE Returned(a, add_user_role(w, d.username, d.role,
                                            d.project_id))

\* --------------------------------------------------------------- NewProject
NewProject_validate_user(act, w) ==
    LET d == act.action_data
        user == find_user(w, d.username)
    IN  IF user # NoUser
        THEN IF user.email = d.email
             THEN [act EXCEPT !.valid = TRUE, !.state = "existing",
                              !.need_token = FALSE]
             ELSE act
        ELSE [act EXCEPT !.valid = TRUE]

\* A project validation that overlooks the existing project.
NewProject_validate_project_blind(act, w) == NewProject_validate_user(act, w)

NewProject_validate_project(act, w) ==
    LET a == NewProject_validate_user(act, w)
    IN  IF find_project(w, act.action_data.project_name) # Null
        THEN [a EXCEPT !.valid = FALSE]
        ELSE a

NewProject_post_approve(act, w, fp) ==
    IF fp = 0 THEN Raised(act, w)
    ELSE
    LET a == NewProject_validate_project(act, w)
        name == a.action_data.project_name
    IN  IF ~a.valid THEN Returned(a, w)
        ELSE IF fp = 1 THEN Raised(a, w)
        ELSE Returned([a EXCEPT !.cache = [project_id |-> name]],
                      create_project(w, name))

\* Grants default_roles[1..n] to the user on the project.
RECURSIVE GrantRoles(_, _, _, _)
GrantRoles(w, name, project, n) ==
    IF n = 0 THEN w
    ELSE add_user_role(GrantRoles(w, name, project, n - 1), name,
                       default_roles[n], project)

NewProject_submit(act, w, token_data, fp) ==
    IF fp = 0 THEN Raised(act, w)
    ELSE
    LET a == NewProject_validate_user(act, w)
        d == a.action_data
    IN  IF ~a.valid THEN Returned(a, w)
        ELSE IF "project_id" \notin DOMAIN a.cache
        THEN Raised(a, w)
        ELSE
        LET project == get_project(w, a.cache.project_id)
        IN  IF project = Null THEN Raised(a, w)
            ELSE IF a.state = "default"
            THEN IF "password" \notin DOMAIN token_data \/ fp = 1
                    \/ find_user(w, d.username) # NoUser
                 THEN Raised(a, w)
                 ELSE LET w1 == create_user(w, d.username,
                                            token_data.password, d.email,
                                            project)
                      IN  IF fp \in {2, 3}
                          THEN Raised(a, GrantRoles(w1, d.username, project,
                                                    fp - 2))
                          ELSE Returned(a, GrantRoles(w1, d.username, project,
                                                      Len(default_roles)))
            ELSE IF fp \in {1, 2}
                 THEN Raised(a, GrantRoles(w, d.username, project, fp - 1))
                 \* the note of this branch is built with
                 \* "..." + "%s" % (three values): the format raises
                 \* TypeError after the roles have been granted
                 ELSE Raised(a, GrantRoles(w, d.username, project,
                                           Len(default_roles)))

\* ---------------------------------------------------------------- ResetUser
ResetUser_validate(act, w) ==
    LET d == act.action_data
        user == find_user(w, d.username)
    IN  IF user # NoUser /\ user.email = d.email
        THEN [act EXCEPT !.valid = TRUE]
        ELSE act

ResetUser_submit(act, w, token_data, fp) ==
    IF fp = 0 THEN Raised(act, w)
    ELSE
    LET a == ResetUser_validate(act, w)
        d == a.action_data
    IN  IF ~a.valid THEN Returned(a, w)
        ELSE IF "password" \notin DOMAIN token_data \/ fp = 1
                \/ find_user(w, d.username) = NoUser
        THEN Raised(a, w)
        ELSE Returned(a, update_user_password(w, d.username,
                                              token_data.password))

\* Phases in which pre_approve of NewProject already creates the project.
PhaseCall_eager(phase, act, ks, w, token_data, fp) ==
    CASE phase = "submit" /\ act.action_name = "NewUser" ->
            NewUser_submit(act, ks, w, token_data, fp)
      [] phase = "submit" /\ act.action_name = "NewProject" ->
            NewProject_submit(act, w, token_data, fp)
      [] phase = "submit" /\ act.action_name = "ResetUser" ->
            ResetUser_submit(act, w, token_data, fp)
      [] phase # "submit" /\ act.action_name = "NewProject" ->
            NewProject_post_approve(act, w, fp)
      [] phase # "submit" /\ act.action_name = "NewUser" ->
            IF fp = 0 THEN Raised(act, w)
            ELSE Returned(NewUser_validate(act, ks, w), w)
      [] phase # "submit" /\ act.action_name = "ResetUser" ->
            IF fp = 0 THEN Raised(act, w)
            ELSE Returned(ResetUser_validate(act, w), w)

\* ------------------------------------------------------- phases of a Task
\* BaseAction.pre_approve / post_approve / submit of the action's class; fp is
\* the point at which the backend fails in this call (-1: nowhere).
PhaseCall(phase, act, ks, w, token_data, fp) ==
    CASE phase = "submit" /\ act.action_name = "NewUser" ->
            NewUser_submit(act, ks, w, token_data, fp)
      [] phase = "submit" /\ act.action_name = "NewProject" ->
            NewProject_submit(act, w, token_data, fp)
      [] phase = "submit" /\ act.action_name = "ResetUser" ->
            ResetUser_submit(act, w, token_data, fp)
      [] phase = "post_approve" /\ act.action_name = "NewProject" ->
            NewProject_post_approve(act, w, fp)
      [] phase = "pre_approve" /\ act.action_name = "NewProject" ->
            IF fp = 0 THEN Raised(act, w)
            ELSE Returned(NewProject_validate_project(act, w), w)
      [] phase # "submit" /\ act.action_name = "NewUser" ->
            IF fp = 0 THEN Raised(act, w)
            ELSE Returned(NewUser_validate(act, ks, w), w)
      [] phase # "submit" /\ act.action_name = "ResetUser" ->
            IF fp = 0 THEN Raised(act, w)
            ELSE Returned(ResetUser_validate(act, w), w)

CountSubmit(w, phase, uuid, i) ==
    IF phase = "submit" THEN [w EXCEPT !.hist.submit[<<uuid, i>>] = @ + 1]
    ELSE w

\* "for action in actions: action.<phase>(...)": the calls from position i
\* on, in ascending order, stopping at the first one that raises (at).
RECURSIVE RunPhase(_, _, _, _, _, _, _, _)
RECURSIVE RunPhaseFrom(_, _, _, _, _, _, _, _)
RunPhaseFrom(phase, uuid, acts, ks, token_data, fault, i, r) ==
    IF r.raised
    THEN [acts |-> [acts EXCEPT ![i] = r.act], w |-> r.w, raised |-> TRUE,
          at |-> i]
    ELSE RunPhase(phase, uuid, [acts EXCEPT ![i] = r.act], ks, r.w,
                  token_data, fault, i + 1)

RunPhase(phase, uuid, acts, ks, w, token_data, fault, i) ==
    IF i > Len(acts)
    THEN [acts |-> acts, w |-> w, raised |-> FALSE, at |-> 0]
    ELSE RunPhaseFrom(phase, uuid, acts, ks, token_data, fault, i,
                      PhaseCall(phase, acts[i], ks,
                                CountSubmit(w, phase, uuid, i), token_data,
                                FaultPoint(fault, phase, i)))

AllValid(acts) == \A i \in 1..Len(acts) : acts[i].valid
AnyNeedToken(acts) == \E i \in 1..Len(acts) : acts[i].need_token

\* ------------------------------------------------------ database helpers
\* st = [tasks, tokens, nextToken, notifications, w]: the database and the
\* backend as a handler sees and changes them.
Cur ==
    [tasks |-> tasks, tokens |-> tokens, nextToken |-> nextToken,
     notifications |-> notifications,
     w |-> [users |-> users, projects |-> projects, grants |-> grants,
            hist |-> hist]]

Response(status, body) == [status |-> status, body |-> body, errors |-> {}]

\* A per-field error response: the fields reported.
FieldResponse(fields) ==
    [status |-> 400, body |-> "field errors", errors |-> fields]

\* No response: the decorator lets the request through.
Pass == Response(0, Null)

ServerError == Response(500, "Something went wrong on the server")

create_token(st, uuid) ==
    [st EXCEPT !.tokens = @ \cup {[token |-> st.nextToken + 1,
                                   registration |-> uuid,
                                   expired |-> FALSE]},
               !.nextToken = @ + 1,
               !.w.hist.create_token[uuid] = @ + 1]

\* The token branch of an approve: create_token(registration).
IssueToken(st, uuid) ==
    [create_token(st, uuid) EXCEPT !.w.hist.issued[uuid] = @ + 1]

create_notification(st, uuid, notes) ==
    [st EXCEPT !.notifications =
        Append(@, [registration |-> uuid, notes |-> notes,
                   acknowledged |-> FALSE])]

TokensOf(st, uuid) == {t \in st.tokens : t.registration = uuid}

\* The phase of every action of Task uuid, on the rows as stored.
RunTaskPhase(phase, st, uuid, token_data, fault) ==
    RunPhase(phase, uuid, st.tasks[uuid].actions,
             st.tasks[uuid].keystone_user, st.w, token_data, fault, 1)

\* The action rows and the backend as the phase calls left them.
Saved(st, uuid, r) ==
    [st EXCEPT !.tasks[uuid].actions = r.acts, !.w = r.w]

\* An approve that leaves the approved flag alone.
MarkApproved_skipped(st, uuid) == st

\* registration.approved = True; approved_on = now; save()
MarkApproved(st, uuid) ==
    [st EXCEPT !.tasks[uuid].approved = TRUE,
               !.tasks[uuid].approved_on = "set"]

\* A completion that leaves completed_on unset.
MarkCompleted_unstamped(st, uuid) ==
    [st EXCEPT !.tasks[uuid].completed = TRUE,
               !.w.hist.completed[uuid] = @ + 1]

\* registration.completed = True; completed_on = now; save()
MarkCompleted(st, uuid) ==
    [st EXCEPT !.tasks[uuid].completed = TRUE,
               !.tasks[uuid].completed_on = "set",
               !.w.hist.completed[uuid] = @ + 1]

\* What a handler returns: the database and backend it leaves, its response.
Result(st, r) == [st |-> st, resp |-> r]

\* The number of Tasks explored: fewer when backend calls may raise, where
\* every request has many more outcomes.
TaskBound == IF backend = "flaky" THEN MaxFlakyTasks ELSE MaxTasks

\* The handler's result becomes the new state (within the model's bounds);
\* its response goes to the caller.
Commit(res) ==
    /\ Len(res.st.tasks) <= TaskBound
    /\ res.st.nextToken <= MaxTokens
    /\ Len(res.st.notifications) <= MaxNotes
    /\ \A k \in DOMAIN res.st.w.hist.submit :
            res.st.w.hist.submit[k] <= MaxCalls
    /\ tasks' = res.st.tasks
    /\ tokens' = res.st.tokens
    /\ nextToken' = res.st.nextToken
    /\ notifications' = res.st.notifications
    /\ users' = res.st.w.users
    /\ projects' = res.st.w.projects
    /\ grants' = res.st.w.grants
    /\ hist' = res.st.w.hist
    /\ UNCHANGED <<settings, backend, procs>>

\* ------------------------------------------------------------- requesters
Admin == [authenticated |-> TRUE, roles |-> {"admin"}, project_id |-> "p0"]
Owner ==
    [authenticated |-> TRUE, roles |-> {"project_owner"}, project_id |-> "p1"]
Member == [authenticated |-> TRUE, roles |-> {"Member"}, project_id |-> "p1"]
Anonymous == [authenticated |-> FALSE, roles |-> {}, project_id |-> Null]
Requesters == {Admin, Owner, Member, Anonymous}

\* A check that lets every authenticated caller through.
admin_or_owner_any_role(ks) ==
    IF ~ks.authenticated THEN Response(401, "Credentials incorrect")
    ELSE IF ks.roles # {}
    THEN Pass
    ELSE Response(403, "Must have one of the roles")

\* The decorators: the response that rejects the request, or Pass.
admin_or_owner(ks) ==
    IF ~ks.authenticated THEN Response(401, "Credentials incorrect")
    ELSE IF ks.roles \cap {"admin", "project_owner", "project_mod"} # {}
    THEN Pass
    ELSE Response(403, "Must have one of the roles")

admin(ks) ==
    IF ~ks.authenticated THEN Response(401, "Credentials incorrect")
    ELSE IF "admin" \in ks.roles THEN Pass
    ELSE Response(403, "Must be admin")

\* --------------------------------------------------------- ActionView
ActionNames(view) == <<default_action(view)>> \o settings[view]

FieldErrors(names, data) ==
    UNION {serializer_errors(names[i], data) : i \in 1..Len(names)}

NewTask(view, ks, acts) ==
    [keystone_user |-> ks, action_view |-> view, approved |-> FALSE,
     completed |-> FALSE, approved_on |-> Null, completed_on |-> Null,
     actions |-> acts]

\* An intake that rolls the Registration back when a pre_approve raised.
Registered_rolled_back(st, uuid, view, ks, r) ==
    IF r.raised
    THEN [st |-> create_notification([st EXCEPT !.w = r.w], uuid,
                                     "error: setting up"),
          registration |-> 0, errors |-> {}, fatal |-> TRUE]
    ELSE [st |-> [st EXCEPT !.tasks = Append(@, NewTask(view, ks, r.acts)),
                            !.w = r.w],
          registration |-> uuid, errors |-> {}, fatal |-> FALSE]

\* The Registration row and its Action rows after the pre_approve loop.  The
\* Action rows are created one by one, each right before its pre_approve: the
\* rows after a call that raised do not exist.
Registered(st, uuid, view, ks, r) ==
    IF r.raised
    THEN [st |-> create_notification(
                    [st EXCEPT !.tasks = Append(@, NewTask(view, ks,
                                                 SubSeq(r.acts, 1, r.at))),
                               !.w = r.w],
                    uuid, "error: setting up"),
          registration |-> 0, errors |-> {}, fatal |-> TRUE]
    ELSE [st |-> [st EXCEPT !.tasks = Append(@, NewTask(view, ks, r.acts)),
                            !.w = r.w],
          registration |-> uuid, errors |-> {}, fatal |-> FALSE]

\* Actions that all get the order index 0.
FreshActions_unordered(names, data) ==
    [i \in 1..Len(names) |->
        NewAction(names[i], validated_data(names[i], data), 0)]

FreshActions(names, data) ==
    [i \in 1..Len(names) |->
        NewAction(names[i], validated_data(names[i], data), i - 1)]

\* A process_actions that reports the errors of its first validator only.
process_actions_first(st, view, data, ks, fault) ==
    IF FieldErrors(ActionNames(view), data) # {}
    THEN [st |-> st, registration |-> 0,
          errors |-> serializer_errors(ActionNames(view)[1], data),
          fatal |-> FALSE]
    ELSE Registered(st, Len(st.tasks) + 1, view, ks,
                    RunPhase("pre_approve", Len(st.tasks) + 1,
                             FreshActions(ActionNames(view), data), ks, st.w,
                             EmptyMap, fault, 1))

\* ActionView.process_actions: [st, registration (0: none), errors, fatal].
process_actions(st, view, data, ks, fault) ==
    IF FieldErrors(ActionNames(view), data) # {}
    THEN [st |-> st, registration |-> 0,
          errors |-> FieldErrors(ActionNames(view), data), fatal |-> FALSE]
    ELSE Registered(st, Len(st.tasks) + 1, view, ks,
                    RunPhase("pre_approve", Len(st.tasks) + 1,
                             FreshActions(ActionNames(view), data), ks, st.w,
                             EmptyMap, fault, 1))

\* What a view answers when process_actions returned 'errors': the errors
\* with status 400, be they field errors or the server-error message.
ErrorResponse(processed) ==
    IF processed.fatal THEN Response(400, "Something went wrong on the server")
    ELSE FieldResponse(processed.errors)

\* A no-token branch that marks the Task completed whatever submit did.
Submitted_anyway(st, uuid, leak, r) ==
    IF r.raised
    THEN Result(MarkCompleted(create_notification(Saved(st, uuid, r), uuid,
                                                  "error: submitting"),
                              uuid),
                IF leak THEN Response(500, "error: submitting")
                ELSE ServerError)
    ELSE Result(MarkCompleted(Saved(st, uuid, r), uuid),
                Response(200, "Registration completed successfully."))

\* The no-token branch of both approve handlers after its submit loop.  `leak`
\* tells whether the handler answers a failure with the notes (which carry
\* the exception's text) or with the generic message.
Submitted(st, uuid, leak, r) ==
    IF r.raised
    THEN Result(create_notification(Saved(st, uuid, r), uuid,
                                    "error: submitting"),
                IF leak THEN Response(500, "error: submitting")
                ELSE ServerError)
    ELSE Result(MarkCompleted(Saved(st, uuid, r), uuid),
                Response(200, "Registration completed successfully."))

SubmitAndComplete(st, uuid, fault, leak) ==
    Submitted(st, uuid, leak, RunTaskPhase("submit", st, uuid, EmptyMap, fault))

\* ActionView.approve after its post_approve loop.
Approved(st, uuid, fault, r) ==
    IF r.raised
    THEN Result(create_notification(Saved(st, uuid, r), uuid,
                                    "error: approving"),
                ServerError)
    ELSE IF ~AllValid(r.acts)
    THEN Result(Saved(st, uuid, r), Response(400, "actions invalid"))
    ELSE IF AnyNeedToken(r.acts)
    THEN Result(IssueToken(Saved(st, uuid, r), uuid),
                Response(200, "created token"))
    ELSE SubmitAndComplete(Saved(st, uuid, r), uuid, fault, FALSE)

\* ActionView.approve on a registration already marked approved.
ApproveMarked(st, uuid, fault) ==
    IF ~AllValid(st.tasks[uuid].actions)
    THEN Result(st, Response(400, "actions invalid"))
    ELSE Approved(st, uuid, fault,
                  RunTaskPhase("post_approve", st, uuid, EmptyMap, fault))

\* ActionView.approve
approve(st, uuid, fault) == ApproveMarked(MarkApproved(st, uuid), uuid, fault)

\* CreateProject.post after process_actions.
CreateProject_processed(p) ==
    IF p.registration = 0
    THEN Result(p.st, ErrorResponse(p))
    ELSE Result(create_notification(p.st, p.registration,
                                    "New registration for CreateProject."),
                Response(200, "registration created"))

\* CreateProject.post
CreateProject_post(st, data, fault) ==
    CreateProject_processed(
        process_actions(st, "CreateProject", data, Anonymous, fault))

\* AttachUser.post and ResetPassword.post after process_actions: the
\* registration is approved at once.
AutoApprove(p, fault) ==
    IF p.registration = 0
    THEN Result(p.st, ErrorResponse(p))
    ELSE approve(p.st, p.registration, fault)

\* AttachUser.post
AttachUser_post(st, ks, data, fault) ==
    IF admin_or_owner(ks) # Pass
    THEN Result(st, admin_or_owner(ks))
    ELSE AutoApprove(process_actions(st, "AttachUser", data, ks, fault), fault)

\* ResetPassword.post
ResetPassword_post(st, data, fault) ==
    AutoApprove(process_actions(st, "ResetPassword", data, Anonymous, fault),
                fault)

\* ------------------------------------------------- RegistrationDetail
\* RegistrationDetail.post after its post_approve loop.
RegistrationDetail_posted(st, uuid, fault, r) ==
    IF r.raised
    THEN Result(create_notification(Saved(st, uuid, r), uuid,
                                    "error: approving"),
                Response(500, "error: approving"))
    ELSE IF ~AllValid(r.acts)
    THEN Result(Saved(st, uuid, r), Response(400, "actions invalid"))
    ELSE IF AnyNeedToken(r.acts)
    THEN Result(IssueToken(MarkApproved(Saved(st, uuid, r), uuid), uuid),
                Response(200, "created token"))
    ELSE SubmitAndComplete(MarkApproved(Saved(st, uuid, r), uuid), uuid,
                           fault, TRUE)

\* An approval that does not look at the completed flag.
RegistrationDetail_post_again(st, ks, uuid, approved, fault) ==
    IF admin(ks) # Pass THEN Result(st, admin(ks))
    ELSE IF uuid \notin 1..Len(st.tasks)
    THEN Result(st, Response(404, "No registration with this id."))
    ELSE IF ~approved
    THEN Result(st, Response(400, "approved: this field is required."))
    ELSE RegistrationDetail_posted(
            st, uuid, fault,
            RunTaskPhase("post_approve", st, uuid, EmptyMap, fault))

\* RegistrationDetail.post
RegistrationDetail_post(st, ks, uuid, approved, fault) ==
    IF admin(ks) # Pass THEN Result(st, admin(ks))
    ELSE IF uuid \notin 1..Len(st.tasks)
    THEN Result(st, Response(404, "No registration with this id."))
    ELSE IF ~approved
    THEN Result(st, Response(400, "approved: this field is required."))
    ELSE IF st.tasks[uuid].completed
    THEN Result(st, Response(400, "already completed"))
    ELSE RegistrationDetail_posted(
            st, uuid, fault,
            RunTaskPhase("post_approve", st, uuid, EmptyMap, fault))

TaskActionNames(st, uuid) ==
    [i \in 1..Len(st.tasks[uuid].actions) |->
        st.tasks[uuid].actions[i].action_name]

\* The action rows with the validated request data in place of their data.
WithData(acts, data) ==
    [i \in 1..Len(acts) |->
        [acts[i] EXCEPT
            !.action_data = validated_data(acts[i].action_name, data)]]

\* RegistrationDetail.put after its save-and-pre_approve loop.  Each action
\* gets its new data saved right before its pre_approve: after a call that
\* raised, the later actions keep their old rows.
RegistrationDetail_updated(st, uuid, r) ==
    IF r.raised
    THEN Result(create_notification(
                    [st EXCEPT !.tasks[uuid].actions =
                        [i \in 1..Len(r.acts) |->
                            IF i <= r.at THEN r.acts[i] ELSE @[i]],
                               !.w = r.w],
                    uuid, "error: updating"),
                ServerError)
    ELSE Result(Saved(st, uuid, r),
                Response(200, "Registration successfully updated."))

\* RegistrationDetail.put
RegistrationDetail_put(st, ks, uuid, data, fault) ==
    IF admin(ks) # Pass THEN Result(st, admin(ks))
    ELSE IF uuid \notin 1..Len(st.tasks)
    THEN Result(st, Response(404, "No registration with this id."))
    ELSE IF st.tasks[uuid].completed
    THEN Result(st, Response(400, "already completed"))
    ELSE IF FieldErrors(TaskActionNames(st, uuid), data) # {}
    THEN Result(st, FieldResponse(FieldErrors(TaskActionNames(st, uuid),
                                              data)))
    ELSE RegistrationDetail_updated(
            st, uuid,
            RunPhase("pre_approve", uuid,
                     WithData(st.tasks[uuid].actions, data),
                     st.tasks[uuid].keystone_user, st.w, EmptyMap, fault, 1))

\* ------------------------------------------------------------ TokenList
\* A reissue that keeps the Tokens the Task already has.
TokenList_post_keeping(st, ks, uuid) ==
    IF admin(ks) # Pass THEN Result(st, admin(ks))
    ELSE IF uuid = 0
    THEN Result(st, FieldResponse({"registration"}))
    ELSE IF uuid \notin 1..Len(st.tasks)
    THEN Result(st, Response(404, "No registration with this id."))
    ELSE IF ~st.tasks[uuid].approved
    THEN Result(st, Response(400, "not approved"))
    ELSE Result(create_token(st, uuid), Response(200, "Token reissued."))

\* TokenList.post (uuid 0: the request names no registration)
TokenList_post(st, ks, uuid) ==
    IF admin(ks) # Pass THEN Result(st, admin(ks))
    ELSE IF uuid = 0
    THEN Result(st, FieldResponse({"registration"}))
    ELSE IF uuid \notin 1..Len(st.tasks)
    THEN Result(st, Response(404, "No registration with this id."))
    ELSE IF ~st.tasks[uuid].approved
    THEN Result(st, Response(400, "not approved"))
    ELSE Result(create_token([st EXCEPT !.tokens = @ \ TokensOf(st, uuid)],
                             uuid),
                Response(200, "Token reissued."))

\* TokenList.delete
TokenList_delete(st, ks) ==
    IF admin(ks) # Pass THEN Result(st, admin(ks))
    ELSE Result([st EXCEPT !.tokens = {t \in @ : ~t.expired}],
                Response(200, "Deleted all expired tokens."))

\* ----------------------------------------------------------- TokenDetail
TokenById(st, id) == {t \in st.tokens : t.token = id}

\* A redemption that requires no field.
RequiredFields_none(acts) == {}

RequiredFields(acts) ==
    UNION {token_fields(acts[i].action_name) : i \in 1..Len(acts)}

\* A lookup that reports an expired Token and keeps it.
TokenDetail_got_kept(st, token) ==
    IF st.tasks[token.registration].completed
    THEN Result(st, Response(400, "already completed"))
    ELSE IF token.expired
    THEN Result(st, Response(400, "This token has expired."))
    ELSE Result(st, [status |-> 200, body |-> "required_fields",
                     errors |->
                        RequiredFields(st.tasks[token.registration].actions)])

\* TokenDetail.get with the Token row found.
TokenDetail_got(st, token) ==
    IF st.tasks[token.registration].completed
    THEN Result(st, Response(400, "already completed"))
    ELSE IF token.expired
    THEN Result([st EXCEPT !.tokens = @ \ {token}],
                Response(400, "This token has expired."))
    ELSE Result(st, [status |-> 200, body |-> "required_fields",
                     errors |->
                        RequiredFields(st.tasks[token.registration].actions)])

\* TokenDetail.get
TokenDetail_get(st, id) ==
    IF TokenById(st, id) = {}
    THEN Result(st, Response(404, "This token does not exist."))
    ELSE TokenDetail_got(st, CHOOSE t \in TokenById(st, id) : TRUE)

\* A redemption that forgets the completed write and the token delete.
TokenDetail_submitted_open(st, token, r) ==
    IF r.raised
    THEN Result(create_notification(Saved(st, token.registration, r),
                                    token.registration, "error: submitting"),
                ServerError)
    ELSE Result(Saved(st, token.registration, r),
                Response(200, "Token submitted successfully."))

\* A redemption that deletes the Token also when a submit raised.
TokenDetail_submitted_consumed(st, token, r) ==
    IF r.raised
    THEN Result(create_notification(
                    [Saved(st, token.registration, r)
                        EXCEPT !.tokens = @ \ {token}],
                    token.registration, "error: submitting"),
                ServerError)
    ELSE Result([MarkCompleted(Saved(st, token.registration, r),
                               token.registration)
                    EXCEPT !.tokens = @ \ {token},
                           !.w.hist.redeemed[token.registration] = @ + 1],
                Response(200, "Token submitted successfully."))

\* TokenDetail.post after its submit loop.
TokenDetail_submitted(st, token, r) ==
    IF r.raised
    THEN Result(create_notification(Saved(st, token.registration, r),
                                    token.registration, "error: submitting"),
                ServerError)
    ELSE Result([MarkCompleted(Saved(st, token.registration, r),
                               token.registration)
                    EXCEPT !.tokens = @ \ {token},
                           !.w.hist.redeemed[token.registration] = @ + 1],
                Response(200, "Token submitted successfully."))

\* A redemption that checks the expiry before the completed flag.
TokenDetail_found_expiry_first(st, token, data, fault) ==
    IF token.expired
    THEN Result([st EXCEPT !.tokens = @ \ {token}],
                Response(400, "This token has expired."))
    ELSE IF st.tasks[token.registration].completed
    THEN Result(st, Response(400, "already completed"))
    ELSE IF RequiredFields(st.tasks[token.registration].actions)
                \ DOMAIN data # {}
    THEN Result(st, FieldResponse(
                    RequiredFields(st.tasks[token.registration].actions)
                        \ DOMAIN data))
    ELSE TokenDetail_submitted(
            st, token,
            RunTaskPhase("submit", st, token.registration, data, fault))

\* TokenDetail.post with the Token row found.
TokenDetail_found(st, token, data, fault) ==
    IF st.tasks[token.registration].completed
    THEN Result(st, Response(400, "already completed"))
    ELSE IF token.expired
    THEN Result([st EXCEPT !.tokens = @ \ {token}],
                Response(400, "This token has expired."))
    ELSE IF RequiredFields(st.tasks[token.registration].actions)
                \ DOMAIN data # {}
    THEN Result(st, FieldResponse(
                    RequiredFields(st.tasks[token.registration].actions)
                        \ DOMAIN data))
    ELSE TokenDetail_submitted(
            st, token,
            RunTaskPhase("submit", st, token.registration, data, fault))

\* TokenDetail.post
TokenDetail_post(st, id, data, fault) ==
    IF TokenById(st, id) = {}
    THEN Result(st, Response(404, "This token does not exist."))
    ELSE TokenDetail_found(st, CHOOSE t \in TokenById(st, id) : TRUE, data,
                           fault)

\* -------------------------------------------------------- Notifications
\* The primary key of a Notification is its position: rows are never deleted.
Unacknowledged(n) == ~n.acknowledged

\* A listing that returns every Notification.
NotificationList_get_all(st, ks) ==
    IF admin(ks) # Pass
    THEN [st |-> st, resp |-> admin(ks), note_list |-> <<>>]
    ELSE [st |-> st, resp |-> Response(200, "note_list"),
          note_list |-> st.notifications]

\* NotificationList.get: the unacknowledged Notifications as dicts.
NotificationList_get(st, ks) ==
    IF admin(ks) # Pass
    THEN [st |-> st, resp |-> admin(ks), note_list |-> <<>>]
    ELSE [st |-> st, resp |-> Response(200, "note_list"),
          note_list |-> SelectSeq(st.notifications, Unacknowledged)]

\* NotificationList.post: note_list is the set of the primary keys of the
\* list the request gives, {} when it gives none (no such field, an empty
\* list or no list at all: one answer); keys of no row are ignored.
NotificationList_post(st, ks, note_list) ==
    IF admin(ks) # Pass THEN Result(st, admin(ks))
    ELSE IF note_list = {}
    THEN Result(st, FieldResponse({"notifications"}))
    ELSE Result([st EXCEPT !.notifications =
                    [pk \in 1..Len(@) |->
                        IF pk \in note_list
                        THEN [@[pk] EXCEPT !.acknowledged = TRUE]
                        ELSE @[pk]]],
                Response(200, "Notifications acknowledged."))

\* NotificationDetail.get
NotificationDetail_get(st, ks, pk) ==
    IF admin(ks) # Pass
    THEN [st |-> st, resp |-> admin(ks), note_list |-> <<>>]
    ELSE IF pk \notin 1..Len(st.notifications)
    THEN [st |-> st, resp |-> Response(404, "No notification with this id."),
          note_list |-> <<>>]
    ELSE [st |-> st, resp |-> Response(200, "notification"),
          note_list |-> <<st.notifications[pk]>>]

\* NotificationDetail.post
NotificationDetail_post(st, ks, pk, acknowledged) ==
    IF admin(ks) # Pass THEN Result(st, admin(ks))
    ELSE IF pk \notin 1..Len(st.notifications)
    THEN Result(st, Response(404, "No notification with this id."))
    ELSE IF acknowledged
    THEN Result([st EXCEPT !.notifications[pk].acknowledged = TRUE],
                Response(200, "Notification acknowledged."))
    ELSE Result(st, FieldResponse({"acknowledged"}))

\* ------------------------------------------------------------ the inputs
\* The request bodies tried on each endpoint: the well-formed ones and one
\* that lacks a required field.
RequestData(view) ==
    CASE view = "CreateProject" ->
            {[project_name |-> "p1", username |-> "u1", email |-> e] :
                e \in Emails}
            \cup {[username |-> "u1", email |-> "e1"]}
      [] view = "AttachUser" ->
            {[username |-> "u1", email |-> e, project_id |-> "p1",
              role |-> "Member"] : e \in Emails}
            \cup {[username |-> "u1", email |-> "e1"]}
      [] view = "ResetPassword" ->
            {[username |-> "u1", email |-> e] : e \in Emails}
            \cup {[username |-> "u1", email |-> "e1", project_name |-> "p1"],
                  [username |-> "u1"]}

TokenData == {EmptyMap, [password |-> "pw1"]}

\* The last point at which a call of the phase can fail in an action.
LastPoint(phase, name) ==
    CASE phase = "pre_approve" -> 0
      [] phase = "post_approve" -> IF name = "NewProject" THEN 1 ELSE 0
      [] phase = "submit" ->
            CASE name = "NewUser" -> 2
              [] name = "NewProject" -> 3
              [] name = "ResetUser" -> 1

\* The faults that can strike a request running `phases` on actions `names`.
FaultsFor(phases, names) ==
    {NoFault} \cup
    {f \in Faults \ {NoFault} :
        /\ backend = "flaky"
        /\ f.phase \in phases
        /\ f.idx <= Len(names)
        /\ f.point <= LastPoint(f.phase, names[f.idx])}

AllPhases == {"pre_approve", "post_approve", "submit"}
TaskIds == 0..MaxTasks
TokenIds == 1..MaxTokens

NamesOf(uuid) ==
    IF uuid \in 1..Len(tasks) THEN TaskActionNames(Cur, uuid) ELSE <<>>

NamesOfToken(id) ==
    IF TokenById(Cur, id) = {} THEN <<>>
    ELSE NamesOf((CHOOSE t \in TokenById(Cur, id) : TRUE).registration)

\* timezone.now() passes a Token's expires (24 hours after its creation).
Expire(id) ==
    /\ \E t \in tokens : t.token = id /\ ~t.expired
    /\ tokens' = {IF t.token = id THEN [t EXCEPT !.expired = TRUE] ELSE t :
                    t \in tokens}
    /\ UNCHANGED <<settings, backend, tasks, nextToken, notifications, users, projects,
                   grants, hist, procs>>

\* ------------------------------------------------------- request workers
\* The workers of the web server that serve the concurrent requests.
Workers == {1, 2}

NoToken == [token |-> 0, registration |-> 0, expired |-> FALSE]

NoRegistration ==
    [uuid |-> 0, approved |-> FALSE, approved_on |-> Null,
     completed |-> FALSE, completed_on |-> Null]

\* The request the worker serves, where it stands in the handler, the
\* instances it holds, and the call counters as they stood when the request
\* arrived.
Worker(op, pc, tok, reg, acts, i, resp, base) ==
    [op |-> op, pc |-> pc, tok |-> tok, reg |-> reg, acts |-> acts, i |-> i,
     resp |-> resp, base |-> base]

Idle ==
    Worker("none", "idle", NoToken, NoRegistration, <<>>, 0, Pass, EmptyMap)

\* ------------------------------------------------------------------- Spec
DefaultSettings == [v \in Views |-> <<>>]
ExtraSettings == [DefaultSettings EXCEPT !["ResetPassword"] = <<"NewProject">>]

\* The uuids a request may give a Registration (the last one is over the bound).
TaskSlots == 1..(MaxTasks + 1)

\* A fresh deployment: an empty database in front of an identity backend
\* that may already hold the user and the project.
Deployed ==
    /\ settings \in {DefaultSettings, ExtraSettings}
    /\ tasks = <<>>
    /\ tokens = {}
    /\ nextToken = 0
    /\ notifications = <<>>
    /\ users \in [Usernames -> {NoUser, [email |-> "e1", password |-> "pw0"]}]
    /\ projects \in {{}, {"p1"}}
    /\ grants = {}
    /\ hist = [create_user |-> [u \in Usernames |-> 0],
               update_user_password |-> [u \in Usernames |-> 0],
               create_project |-> [p \in ProjectNames |-> 0],
               submit |-> [k \in TaskSlots \X (1..2) |-> 0],
               create_token |-> [u \in TaskSlots |-> 0],
               issued |-> [u \in TaskSlots |-> 0],
               completed |-> [u \in TaskSlots |-> 0],
               redeemed |-> [u \in TaskSlots |-> 0]]
    /\ procs = [p \in Workers |-> Idle]

Init == Deployed /\ backend = "up"

InitFlaky == Deployed /\ backend = "flaky"

\* The inputs worth trying on a guarded endpoint: a request the decorator
\* rejects is tried with one input only, its other inputs are never read.
TasksFor(ks) == IF admin(ks) = Pass THEN 0..Len(tasks) ELSE {0}

DataFor(u) ==
    IF u \in 1..Len(tasks) THEN RequestData(tasks[u].action_view)
    ELSE {EmptyMap}

\* One request to each endpoint, with its inputs.
CreateProjectRequest ==
    \E d \in RequestData("CreateProject") :
      \E f \in FaultsFor({"pre_approve"}, ActionNames("CreateProject")) :
        \E res \in {CreateProject_post(Cur, d, f)} : Commit(res)

AttachUserRequest ==
    \E ks \in Requesters :
      \E d \in (IF admin_or_owner(ks) = Pass THEN RequestData("AttachUser")
                ELSE {EmptyMap}) :
        \E f \in FaultsFor(AllPhases, ActionNames("AttachUser")) :
          \E res \in {AttachUser_post(Cur, ks, d, f)} : Commit(res)

ResetPasswordRequest ==
    \E d \in RequestData("ResetPassword") :
      \E f \in FaultsFor(AllPhases, ActionNames("ResetPassword")) :
        \E res \in {ResetPassword_post(Cur, d, f)} : Commit(res)

ApproveRequest ==
    \E ks \in Requesters :
      \E u \in TasksFor(ks) :
        \E a \in (IF u = 0 THEN {TRUE} ELSE BOOLEAN) :
          \E f \in FaultsFor({"post_approve", "submit"}, NamesOf(u)) :
            \E res \in {RegistrationDetail_post(Cur, ks, u, a, f)} :
                Commit(res)

UpdateRequest ==
    \E ks \in Requesters :
      \E u \in TasksFor(ks) :
        \E d \in DataFor(u) :
          \E f \in FaultsFor({"pre_approve"}, NamesOf(u)) :
            \E res \in {RegistrationDetail_put(Cur, ks, u, d, f)} :
                Commit(res)

ReissueRequest ==
    \E ks \in Requesters :
      \E u \in TasksFor(ks) :
        \E res \in {TokenList_post(Cur, ks, u)} : Commit(res)

PurgeRequest ==
    \E ks \in Requesters :
        \E res \in {TokenList_delete(Cur, ks)} : Commit(res)

TokenGetRequest ==
    \E id \in TokenIds :
        \E res \in {TokenDetail_get(Cur, id)} : Commit(res)

RedeemRequest ==
    \E id \in TokenIds, d \in TokenData :
      \E f \in FaultsFor({"submit"}, NamesOfToken(id)) :
        \E res \in {TokenDetail_post(Cur, id, d, f)} : Commit(res)

TimePasses == \E id \in TokenIds : Expire(id)

Next ==
    \/ CreateProjectRequest
    \/ AttachUserRequest
    \/ ResetPasswordRequest
    \/ ApproveRequest
    \/ UpdateRequest
    \/ ReissueRequest
    \/ PurgeRequest
    \/ TokenGetRequest
    \/ RedeemRequest
    \/ TimePasses

Spec == Init /\ [][Next]_vars

\* The same requests against a backend whose calls may raise.
SpecFlaky == InitFlaky /\ [][Next]_vars

\* --------------------------------------------------- concurrent requests
\* Two requests served at the same time by two workers of the web server.
\* Each worker holds the model instances it has loaded (the Token row, the
\* Registration row, the Action rows) and every step is one database or
\* backend access of the handler; save() writes the whole loaded row back.
\* Registration.objects.get(uuid=u): the fields of the row.
RegistrationRow(st, u) ==
    [uuid |-> u, approved |-> st.tasks[u].approved,
     approved_on |-> st.tasks[u].approved_on,
     completed |-> st.tasks[u].completed,
     completed_on |-> st.tasks[u].completed_on]

\* registration.save()
save(st, reg) ==
    [st EXCEPT !.tasks[reg.uuid].approved = reg.approved,
               !.tasks[reg.uuid].approved_on = reg.approved_on,
               !.tasks[reg.uuid].completed = reg.completed,
               !.tasks[reg.uuid].completed_on = reg.completed_on]

\* Whether the phase call reaches a self.action.save(): the validation takes
\* a branch that sets the flags, or post_approve caches the project id.
Touched(phase, act, ks, w) ==
    CASE act.action_name = "NewUser" ->
            /\ "admin" \in ks.roles
                  \/ ks.project_id = act.action_data.project_id
            /\ get_project(w, act.action_data.project_id) # Null
            /\ \/ find_user(w, act.action_data.username) = NoUser
               \/ find_user(w, act.action_data.username).email
                      = act.action_data.email
      [] act.action_name = "ResetUser" ->
            /\ find_user(w, act.action_data.username) # NoUser
            /\ find_user(w, act.action_data.username).email
                   = act.action_data.email
      [] act.action_name = "NewProject" ->
            \/ find_user(w, act.action_data.username) = NoUser
            \/ find_user(w, act.action_data.username).email
                   = act.action_data.email
            \/ /\ phase # "submit"
               /\ find_project(w, act.action_data.project_name) # Null
            \/ /\ phase = "post_approve"
               /\ NewProject_validate_project(act, w).valid

At(p, op, pc) == procs[p].op = op /\ procs[p].pc = pc

Goto(p, pc) == [procs[p] EXCEPT !.pc = pc]

Done(p, r) == [procs[p] EXCEPT !.pc = "done", !.resp = r]

\* Each of the two concurrent requests may create a Token.
MaxConcTokens == MaxTokens + 1

\* One step of worker p: the database and backend it leaves, and its own
\* new position.
Step(p, st, proc) ==
    /\ st.nextToken <= MaxConcTokens
    /\ Len(st.notifications) <= MaxNotes
    /\ tasks' = st.tasks
    /\ tokens' = st.tokens
    /\ nextToken' = st.nextToken
    /\ notifications' = st.notifications
    /\ users' = st.w.users
    /\ projects' = st.w.projects
    /\ grants' = st.w.grants
    /\ hist' = st.w.hist
    /\ procs' = [procs EXCEPT ![p] = proc]
    /\ UNCHANGED <<settings, backend>>

\* The password every concurrent redemption sends.
RedeemData == [password |-> "pw1"]

\* TokenDetail.post: token = Token.objects.get(token=id)
RedeemLookup(p) ==
    /\ procs[p].pc = "idle"
    /\ \E id \in TokenIds :
        IF TokenById(Cur, id) = {}
        THEN Step(p, Cur,
                  [Done(p, Response(404, "This token does not exist."))
                      EXCEPT !.op = "redeem", !.base = hist])
        ELSE Step(p, Cur,
                  Worker("redeem", "check_completed",
                         CHOOSE t \in TokenById(Cur, id) : TRUE,
                         NoRegistration, <<>>, 0, Pass, hist))

\* TokenDetail.post: if token.registration.completed (the first access to
\* token.registration loads the Registration row)
RedeemCheckCompleted(p) ==
    /\ At(p, "redeem", "check_completed")
    /\ IF tasks[procs[p].tok.registration].completed
       THEN Step(p, Cur, Done(p, Response(400, "already completed")))
       ELSE Step(p, Cur,
                 [Goto(p, "check_expiry") EXCEPT
                    !.reg = RegistrationRow(Cur, procs[p].tok.registration)])

\* TokenDetail.post: if token.expires < timezone.now(): token.delete()
RedeemCheckExpiry(p) ==
    /\ At(p, "redeem", "check_expiry")
    /\ IF procs[p].tok.expired
       THEN Step(p, [Cur EXCEPT !.tokens =
                        {t \in @ : t.token # procs[p].tok.token}],
                 Done(p, Response(400, "This token has expired.")))
       ELSE Step(p, Cur, Goto(p, "load_actions"))

\* "for action in registration.actions": the query loads the Action rows.
\* A redemption then checks the required fields of its payload.
LoadActions(p) ==
    /\ procs[p].pc = "load_actions"
    /\ IF procs[p].op = "redeem"
          /\ RequiredFields(tasks[procs[p].reg.uuid].actions)
                \ DOMAIN RedeemData # {}
       THEN Step(p, Cur,
                 Done(p, FieldResponse(
                    RequiredFields(tasks[procs[p].reg.uuid].actions)
                        \ DOMAIN RedeemData)))
       ELSE Step(p, Cur,
                 [procs[p] EXCEPT
                    !.acts = tasks[procs[p].reg.uuid].actions,
                    !.i = 1,
                    !.pc = IF procs[p].op = "redeem" THEN "submit"
                           ELSE "post_approve"])

\* The database after a phase call of worker p on its i-th action: the row
\* is written when the call saved it, the backend is as the call left it.
AfterCall(p, phase, r) ==
    [Cur EXCEPT
        !.tasks[procs[p].reg.uuid].actions[procs[p].i] =
            IF Touched(phase, procs[p].acts[procs[p].i],
                       tasks[procs[p].reg.uuid].keystone_user, Cur.w)
            THEN r.act ELSE @,
        !.w = r.w]

\* The worker after that call: on to the next action, or to `next` after the
\* last one.
Advance(p, r, next) ==
    [procs[p] EXCEPT !.acts[procs[p].i] = r.act,
                     !.i = @ + 1,
                     !.pc = IF procs[p].i = Len(procs[p].acts) THEN next
                            ELSE @]

\* The phase call of worker p on its i-th action, with token data td.
WorkerCall(p, phase, td) ==
    PhaseCall(phase, procs[p].acts[procs[p].i],
              tasks[procs[p].reg.uuid].keystone_user,
              CountSubmit(Cur.w, phase, procs[p].reg.uuid, procs[p].i),
              td, -1)

Submitting(p, r) ==
    IF r.raised
    THEN Step(p, create_notification(AfterCall(p, "submit", r),
                                     procs[p].reg.uuid, "error: submitting"),
              Done(p, IF procs[p].op = "redeem" THEN ServerError
                      ELSE Response(500, "error: submitting")))
    ELSE Step(p, AfterCall(p, "submit", r), Advance(p, r, "complete"))

\* action.submit(data) on the next action, in a redemption or in the
\* no-token branch of an approve.
Submit(p) ==
    /\ procs[p].pc = "submit"
    /\ hist.submit[<<procs[p].reg.uuid, procs[p].i>>] < MaxCalls
    /\ Submitting(p, WorkerCall(p, "submit",
                                IF procs[p].op = "redeem" THEN RedeemData
                                ELSE EmptyMap))

\* registration.completed = True; completed_on = now; registration.save()
Complete(p) ==
    /\ procs[p].pc = "complete"
    /\ Step(p, [save(Cur, [procs[p].reg EXCEPT !.completed = TRUE,
                                               !.completed_on = "set"])
                  EXCEPT !.w.hist.completed[procs[p].reg.uuid] = @ + 1],
            IF procs[p].op = "redeem"
            THEN [Goto(p, "delete") EXCEPT !.reg.completed = TRUE,
                                           !.reg.completed_on = "set"]
            ELSE [Done(p, Response(200,
                            "Registration completed successfully."))
                    EXCEPT !.reg.completed = TRUE,
                           !.reg.completed_on = "set"])

\* TokenDetail.post: token.delete()
RedeemDelete(p) ==
    /\ At(p, "redeem", "delete")
    /\ Step(p, [Cur EXCEPT
                    !.tokens = {t \in @ : t.token # procs[p].tok.token},
                    !.w.hist.redeemed[procs[p].reg.uuid] = @ + 1],
            Done(p, Response(200, "Token submitted successfully.")))

\* RegistrationDetail.post of an admin with approved = True:
\* registration = Registration.objects.get(uuid=uuid), and the completed
\* check on the row just loaded.
ApproveLookup(p) ==
    /\ procs[p].pc = "idle"
    /\ \E u \in 0..Len(tasks) :
        IF u = 0
        THEN Step(p, Cur,
                  [Done(p, Response(404, "No registration with this id."))
                      EXCEPT !.op = "approve", !.base = hist])
        ELSE IF tasks[u].completed
        THEN Step(p, Cur,
                  [Done(p, Response(400, "already completed"))
                      EXCEPT !.op = "approve", !.base = hist])
        ELSE Step(p, Cur,
                  Worker("approve", "load_actions", NoToken,
                         RegistrationRow(Cur, u), <<>>, 0, Pass, hist))

PostApproving(p, r) ==
    IF r.raised
    THEN Step(p, create_notification(AfterCall(p, "post_approve", r),
                                     procs[p].reg.uuid, "error: approving"),
              Done(p, Response(500, "error: approving")))
    ELSE IF procs[p].i = Len(procs[p].acts)
            /\ ~AllValid(Advance(p, r, "valid").acts)
    THEN Step(p, AfterCall(p, "post_approve", r),
              [Advance(p, r, "done") EXCEPT
                  !.resp = Response(400, "actions invalid")])
    ELSE Step(p, AfterCall(p, "post_approve", r), Advance(p, r, "valid"))

\* act_model.post_approve() on the next action; after the last one the
\* request is refused when some action is not valid.
PostApproveCall(p) ==
    /\ At(p, "approve", "post_approve")
    /\ PostApproving(p, WorkerCall(p, "post_approve", EmptyMap))

\* registration.approved = True; approved_on = now; registration.save()
ApproveMark(p) ==
    /\ At(p, "approve", "valid")
    /\ Step(p, save(Cur, [procs[p].reg EXCEPT !.approved = TRUE,
                                              !.approved_on = "set"]),
            [procs[p] EXCEPT
                !.reg.approved = TRUE,
                !.reg.approved_on = "set",
                !.i = 1,
                !.pc = IF AnyNeedToken(procs[p].acts) THEN "create_token"
                       ELSE "submit"])

\* token = create_token(registration)
ApproveCreateToken(p) ==
    /\ At(p, "approve", "create_token")
    /\ Step(p, IssueToken(Cur, procs[p].reg.uuid),
            Done(p, Response(200, "created token")))

\* The requests that prepare the database, before the concurrent ones.
Prepare ==
    /\ \A p \in Workers : procs[p].pc = "idle"
    /\ \/ CreateProjectRequest
       \/ AttachUserRequest

NextConc ==
    \/ Prepare
    \/ \E p \in Workers : RedeemLookup(p)
    \/ \E p \in Workers : RedeemCheckCompleted(p)
    \/ \E p \in Workers : RedeemCheckExpiry(p)
    \/ \E p \in Workers : LoadActions(p)
    \/ \E p \in Workers : Submit(p)
    \/ \E p \in Workers : Complete(p)
    \/ \E p \in Workers : RedeemDelete(p)
    \/ \E p \in Workers : ApproveLookup(p)
    \/ \E p \in Workers : PostApproveCall(p)
    \/ \E p \in Workers : ApproveMark(p)
    \/ \E p \in Workers : ApproveCreateToken(p)

\* Two requests interleaved step by step on a database prepared by earlier
\* requests.
SpecConc == Init /\ [][NextConc]_vars

\* ================================================================= properties
TaskUuids == 1..Len(tasks)

LiveTokens(u) == {t \in TokensOf(Cur, u) : ~t.expired}

\* C1: in every reachable state every Task with completed = true also has
\* approved = true.
C1_CompletedImpliesApproved ==
    \A u \in TaskUuids : tasks[u].completed => tasks[u].approved

\* A Task has been completed (and is approved).
C1_Witness ==
    \E u \in TaskUuids :
        tasks[u].completed /\ tasks[u].approved /\ hist.completed[u] = 1

\* An incomplete Task with the requester, the endpoint and the payload of
\* the request exists.
DuplicateOf(view, ks, data) ==
    /\ FieldErrors(ActionNames(view), data) = {}
    /\ \E u \in TaskUuids :
        /\ ~tasks[u].completed
        /\ tasks[u].action_view = view
        /\ tasks[u].keystone_user = ks
        /\ Len(tasks[u].actions) = Len(ActionNames(view))
        /\ \A i \in 1..Len(tasks[u].actions) :
              tasks[u].actions[i].action_data =
                  validated_data(ActionNames(view)[i], data)

Refused(res) == res.resp.status = 409 /\ res.st.tasks = tasks

\* C7: a request with the requester and the payload of an existing Task that
\* is not completed is answered with a conflict (409) and creates no Task.
C7_DuplicateRefused ==
    /\ \A d \in RequestData("CreateProject") :
          DuplicateOf("CreateProject", Anonymous, d)
              => Refused(CreateProject_post(Cur, d, NoFault))
    /\ \A d \in RequestData("ResetPassword") :
          DuplicateOf("ResetPassword", Anonymous, d)
              => Refused(ResetPassword_post(Cur, d, NoFault))
    /\ \A ks \in {Admin, Owner}, d \in RequestData("AttachUser") :
          DuplicateOf("AttachUser", ks, d)
              => Refused(AttachUser_post(Cur, ks, d, NoFault))

\* C8: in every reachable state each Task has at most one unexpired Token.
C8_OneLiveToken ==
    \A u \in TaskUuids : Cardinality(LiveTokens(u)) <= 1

\* The post_approve loop of an approve of Task u, as it would run now.
PostApprove(u) == RunTaskPhase("post_approve", Cur, u, EmptyMap, NoFault)

\* The approve request of an admin for Task u, as it would answer now.
Approve(u) == RegistrationDetail_post(Cur, Admin, u, TRUE, NoFault)

C2_Issues(u, r, res) ==
    (~r.raised /\ AllValid(r.acts) /\ AnyNeedToken(r.acts))
        => /\ res.resp = Response(200, "created token")
           /\ Cardinality(TokensOf(res.st, u)) =
                  Cardinality(TokensOf(Cur, u)) + 1
           /\ res.st.w.hist.issued[u] = hist.issued[u] + 1
           /\ ~res.st.tasks[u].completed

\* C2: an approve that finds every action valid after post_approve and some
\* action with need_token = true creates a Token for the Task, and a Task for
\* which an approve created a Token becomes completed only by a successful
\* token redemption for it.
C2_IncompleteUntilRedeemed ==
    [][/\ \A u \in TaskUuids :
            ~tasks[u].completed => C2_Issues(u, PostApprove(u), Approve(u))
       /\ \A u \in TaskUuids :
            (hist.issued[u] > 0 /\ ~tasks[u].completed /\ tasks'[u].completed)
                => hist'.redeemed[u] = hist.redeemed[u] + 1]_vars

C3_Completes(u, r, res) ==
    (~r.raised /\ AllValid(r.acts) /\ ~AnyNeedToken(r.acts))
        => /\ res.st.tasks[u].completed
           /\ res.st.tokens = tokens
           /\ res.st.w.hist.create_token = hist.create_token
           /\ \A i \in 1..Len(tasks[u].actions) :
                 res.st.w.hist.submit[<<u, i>>] = hist.submit[<<u, i>>] + 1

\* Task u was completed by an approve, without a token.
CompletedByApprove(u) == tasks[u].completed /\ hist.redeemed[u] = 0

\* C3: an approve that finds every action valid after post_approve and no
\* action with need_token = true runs submit and completes the Task without
\* creating a Token, and no later operation creates a Token for that Task.
C3_NoTokenEver ==
    [][/\ \A u \in TaskUuids :
            ~tasks[u].completed => C3_Completes(u, PostApprove(u), Approve(u))
       /\ \A u \in TaskUuids :
            CompletedByApprove(u)
                => hist'.create_token[u] = hist.create_token[u]]_vars

Redeem(st, id, data) == TokenDetail_post(st, id, data, NoFault)

C4_Second(r1, r2) ==
    /\ r2.resp \in {Response(404, "This token does not exist."),
                    Response(400, "already completed")}
    /\ r2.st = r1.st

C4_First(id, u, r1) ==
    r1.resp.status = 200
        => /\ \A d2 \in TokenData : C4_Second(r1, Redeem(r1.st, id, d2))
           /\ \A i \in 1..Len(tasks[u].actions) :
                 r1.st.w.hist.submit[<<u, i>>] = hist.submit[<<u, i>>] + 1

\* C4: when a Token is redeemed twice in a row and the first redemption
\* succeeds, the second one is answered "already completed" or "token does
\* not exist" and changes nothing: over the two attempts submit has run
\* exactly once on each action.
C4_SecondRedemptionRefused ==
    \A t \in tokens, d \in TokenData :
        C4_First(t.token, t.registration, Redeem(Cur, t.token, d))

\* A Token has been redeemed; redeeming it again finds no such Token.
C4_Witness ==
    \E u \in TaskUuids, id \in 1..nextToken :
        /\ hist.redeemed[u] = 1
        /\ tasks[u].completed
        /\ hist.submit[<<u, 1>>] = 1
        /\ TokenById(Cur, id) = {}
        /\ Redeem(Cur, id, [password |-> "pw1"]).resp.status = 404

AllFields == {"username", "email", "project_id", "role", "project_name"}

\* The fields some configured action of the view requires and data lacks.
MissingFields(view, data) ==
    {f \in AllFields :
        \E i \in 1..Len(ActionNames(view)) :
            f \in required(ActionNames(view)[i]) /\ f \notin DOMAIN data}

C9_Processed(view, data, p) ==
    IF MissingFields(view, data) # {}
    THEN /\ p.errors = MissingFields(view, data)
         /\ p.registration = 0
         /\ p.st = Cur
    ELSE /\ Len(p.st.tasks) = Len(tasks) + 1
         /\ p.st.tokens = tokens

C9_Answered(view, data, res) ==
    MissingFields(view, data) # {}
        => res.resp = FieldResponse(MissingFields(view, data)) /\ res.st = Cur

\* C9: when the field validator of some configured action rejects the
\* payload, process_actions returns the union of the field errors and
\* creates no Task, Action, Token or Notification; a Task is created only
\* when every validator accepts the payload.
C9_AllOrNothingIntake ==
    /\ \A view \in Views :
         \A ks \in (IF view = "AttachUser" THEN {Admin, Owner}
                    ELSE {Anonymous}), d \in RequestData(view) :
            C9_Processed(view, d, process_actions(Cur, view, d, ks, NoFault))
    /\ \A d \in RequestData("CreateProject") :
            C9_Answered("CreateProject", d, CreateProject_post(Cur, d, NoFault))
    /\ \A d \in RequestData("AttachUser") :
            C9_Answered("AttachUser", d, AttachUser_post(Cur, Admin, d, NoFault))
    /\ \A d \in RequestData("ResetPassword") :
            C9_Answered("ResetPassword", d, ResetPassword_post(Cur, d, NoFault))

\* A database with a Task, a Token and a Notification, on which a payload is
\* rejected by two validators with different field errors.
C9_Witness ==
    /\ tasks # <<>>
    /\ tokens # {}
    /\ notifications # <<>>
    /\ \E d \in RequestData("ResetPassword") :
        /\ serializer_errors(ActionNames("ResetPassword")[1], d) # {}
        /\ serializer_errors(ActionNames("ResetPassword")[1], d)
              # MissingFields("ResetPassword", d)
        /\ process_actions(Cur, "ResetPassword", d, Anonymous, NoFault).errors
              = {"email", "project_name"}

\* The names of the projects the NewProject actions of Task u ask for.
ProjectNamesOf(u) ==
    {tasks[u].actions[i].action_data.project_name :
        i \in {j \in 1..Len(tasks[u].actions) :
                    tasks[u].actions[j].action_name = "NewProject"}}

C10_Rejected(u, res) ==
    /\ res.resp = Response(400, "actions invalid")
    /\ res.st.tokens = tokens
    /\ ~res.st.tasks[u].completed
    /\ res.st.w.hist.create_project = hist.create_project
    /\ res.st.w.projects = projects

C10_Created(u, res) ==
    res.resp.status = 200
        => \A n \in ProjectNamesOf(u) :
              n \in res.st.w.projects /\ res.st.w.hist.create_project[n] = 1

C10_Intake(d, res) ==
    ("project_name" \in DOMAIN d /\ d.project_name \in projects
     /\ settings["ResetPassword"] # <<>>)
        => /\ res.resp = Response(400, "actions invalid")
           /\ res.st.tokens = tokens
           /\ res.st.w.hist.create_project = hist.create_project

\* C10: approving a NewProject Task whose project_name already exists in the
\* backend is answered 400 "actions invalid", creates no Token, does not
\* complete the Task and does not call create_project; an approval that
\* succeeds has created the project; no project name is created twice.
C10_ProjectCreatedOnce ==
    /\ \A u \in TaskUuids :
        (~tasks[u].completed /\ ProjectNamesOf(u) # {})
            => IF ProjectNamesOf(u) \cap projects # {}
               THEN C10_Rejected(u, Approve(u))
               ELSE C10_Created(u, Approve(u))
    /\ \A d \in RequestData("ResetPassword") :
            C10_Intake(d, ResetPassword_post(Cur, d, NoFault))
    /\ \A n \in ProjectNames : hist.create_project[n] <= 1

\* Two Tasks ask for the same project name; the approval of the first one
\* created the project, the approval of the second one found it and left the
\* action invalid.
C10_Witness ==
    \E u1, u2 \in TaskUuids :
        /\ u1 # u2
        /\ ProjectNamesOf(u1) = ProjectNamesOf(u2)
        /\ ProjectNamesOf(u1) # {}
        /\ ProjectNamesOf(u1) \subseteq projects
        /\ \A n \in ProjectNamesOf(u1) : hist.create_project[n] = 1
        /\ tasks[u1].approved
        /\ ~tasks[u2].approved /\ ~tasks[u2].completed
        /\ \E i \in 1..Len(tasks[u2].actions) :
              tasks[u2].actions[i].action_name = "NewProject"
              /\ ~tasks[u2].actions[i].valid
        /\ Approve(u2).resp = Response(400, "actions invalid")

\* Both workers serve a redemption of Token t.
BothRedeem(t) ==
    \A p \in Workers : procs[p].op = "redeem" /\ procs[p].tok.token = t

\* Worker p has called submit on an action.
RanSubmit(p) == procs[p].i > 1 \/ procs[p].resp.status = 500

\* C5: of two redemptions of the same Token interleaved step by step, at
\* most one runs submit on the Task's actions, and the Task is marked
\* completed at most once.
C5_OneRedemptionSubmits ==
    \A t \in {procs[p].tok : p \in Workers} :
        (t # NoToken /\ BothRedeem(t.token))
            => /\ ~(\A p \in Workers : RanSubmit(p))
               /\ hist.completed[t.registration] <= 1

\* Both workers serve an approve of Task u.
BothApprove(u) ==
    \A p \in Workers : procs[p].op = "approve" /\ procs[p].reg.uuid = u

\* The smaller of two numbers.
Least(a, b) == IF a <= b THEN a ELSE b

\* C6: two approve requests for the same Task interleaved step by step
\* create at most one Token between them, complete the Task at most once,
\* and call create_project and each action's submit at most once.
C6_OneApprovalActs ==
    \A u \in TaskUuids :
        BothApprove(u)
            => /\ hist.create_token[u]
                    <= Least(procs[1].base.create_token[u],
                             procs[2].base.create_token[u]) + 1
               /\ hist.completed[u] <= 1
               /\ \A n \in ProjectNamesOf(u) :
                    hist.create_project[n]
                        <= Least(procs[1].base.create_project[n],
                                 procs[2].base.create_project[n]) + 1
               /\ \A i \in 1..Len(tasks[u].actions) :
                    hist.submit[<<u, i>>]
                        <= Least(procs[1].base.submit[<<u, i>>],
                                 procs[2].base.submit[<<u, i>>]) + 1

\* The users the identity backend may hold: the user absent, or present with
\* either email.
UserSets ==
    [Usernames ->
        {NoUser} \cup {[email |-> e, password |-> "pw0"] : e \in Emails}]

\* What the ResetPassword request d answers when the backend holds users us.
ResetAgainst(us, d) ==
    ResetPassword_post([Cur EXCEPT !.w.users = us], d, NoFault).resp

\* C11: the response of a ResetPassword request (status and message) is the
\* same whether or not the backend holds a user with the given username and
\* email: two runs that differ only in the backend's users answer alike.
C11_SameAnswerWhoeverExists ==
    \A d \in RequestData("ResetPassword") :
        \A us1, us2 \in UserSets : ResetAgainst(us1, d) = ResetAgainst(us2, d)

\* --------------------------------------- the administrators' notifications
\* The requests of an administrator who reads and acknowledges Notifications,
\* next to the requests on a project request, which record them: its intake,
\* and any later request on its Task or Token in which a backend call raises.
NoteKeys == 1..(MaxNotes + 1)

NotificationListRequest ==
    \E ks \in Requesters :
      \E res \in {NotificationList_get(Cur, ks)} :
        Commit(Result(res.st, res.resp))

NotificationGetRequest ==
    \E ks \in Requesters, pk \in NoteKeys :
      \E res \in {NotificationDetail_get(Cur, ks, pk)} :
        Commit(Result(res.st, res.resp))

AcknowledgeRequest ==
    \E ks \in Requesters, pk \in NoteKeys, acknowledged \in BOOLEAN :
      \E res \in {NotificationDetail_post(Cur, ks, pk, acknowledged)} :
        Commit(res)

AcknowledgeListRequest ==
    \E ks \in Requesters, note_list \in SUBSET NoteKeys :
      \E res \in {NotificationList_post(Cur, ks, note_list)} : Commit(res)

NextNotes ==
    \/ CreateProjectRequest
    \/ ApproveRequest
    \/ UpdateRequest
    \/ ReissueRequest
    \/ PurgeRequest
    \/ TokenGetRequest
    \/ RedeemRequest
    \/ TimePasses
    \/ NotificationListRequest
    \/ NotificationGetRequest
    \/ AcknowledgeRequest
    \/ AcknowledgeListRequest

SpecNotes == InitFlaky /\ [][NextNotes]_vars

\* ------------------------------------------- a backend with other clients
\* The identity service is shared: between two requests another client of it
\* may remove a user, create one, or change a user's email.
BackendChanges ==
    /\ users' \in UserSets \ {users}
    /\ UNCHANGED <<settings, backend, tasks, tokens, nextToken, notifications,
                   projects, grants, hist, procs>>

\* The password reset workflow in front of such a backend.
NextDrift ==
    \/ ResetPasswordRequest
    \/ RedeemRequest
    \/ BackendChanges

SpecDrift == Init /\ [][NextDrift]_vars

\* Task u holds a ResetUser action for username n, and the backend now holds
\* user n with the email that action names.
Backed(u, n) ==
    \E i \in 1..Len(tasks[u].actions) :
        /\ tasks[u].actions[i].action_name = "ResetUser"
        /\ tasks[u].actions[i].action_data.username = n
        /\ users[n] # NoUser
        /\ users[n].email = tasks[u].actions[i].action_data.email

C12_Redeemed(u, res) ==
    \A n \in Usernames :
        res.st.w.hist.update_user_password[n] > hist.update_user_password[n]
            => Backed(u, n)

C12_Unbacked(d, res) ==
    (/\ FieldErrors(ActionNames("ResetPassword"), d) = {}
     /\ ~(users[d.username] # NoUser /\ users[d.username].email = d.email))
        => /\ res.st.tokens = tokens
           /\ res.st.w.users = users
           /\ res.st.w.hist.update_user_password = hist.update_user_password

\* C12: a redemption calls update_user_password only for a user the backend
\* holds, at that moment, with the email the ResetUser action names, whatever
\* happened to the backend since intake; a ResetPassword request that names
\* no such user issues no Token and changes no password.
C12_PasswordOnlyForBackedUser ==
    /\ \A t \in tokens :
          C12_Redeemed(t.registration,
                       Redeem(Cur, t.token, [password |-> "pw1"]))
    /\ \A d \in RequestData("ResetPassword") :
          C12_Unbacked(d, ResetPassword_post(Cur, d, NoFault))

C13_Marked(u, res) ==
    res.st.tasks[u].approved /\ res.st.tasks[u].approved_on = "set"

\* C13: every approve of an existing Task that is not completed sets approved
\* and approved_on, whether post_approve leaves the actions valid or not:
\* after an approve answered "actions invalid" the Task is approved and not
\* completed.
C13_ApprovedOnInvocation ==
    \A u \in TaskUuids :
        ~tasks[u].completed
            => /\ C13_Marked(u, Approve(u))
               /\ (Approve(u).resp = Response(400, "actions invalid")
                    => ~Approve(u).st.tasks[u].completed)

\* The backend failures that can strike the post_approve calls of Task u.
PostApproveFaults(u) == FaultsFor({"post_approve"}, NamesOf(u)) \ {NoFault}

\* The request added one Notification, and it references Task u.
Notified(u, res) ==
    /\ Len(res.st.notifications) = Len(notifications) + 1
    /\ res.st.notifications[Len(res.st.notifications)].registration = u

\* The approve of Task u repeated on what the failed approve left behind.
Retry(u, res) == RegistrationDetail_post(res.st, Admin, u, TRUE, NoFault)

C14_Failed(u, res) ==
    /\ res.resp.status = 500
    /\ Notified(u, res)
    /\ res.st.tokens = tokens
    /\ res.st.tasks[u].approved
    /\ ~res.st.tasks[u].completed
    /\ Approve(u).resp.status = 200 => Retry(u, res).resp = Approve(u).resp

\* C14: when post_approve raises during an approve, a Notification for the
\* Task is recorded, no Token is created, the Task is left approved and not
\* completed, and the approve repeated without the fault reaches the outcome
\* (token created or completed) it would have reached at first.
C14_FailedApproveRetryable ==
    \A u \in TaskUuids : \A f \in PostApproveFaults(u) :
        (~tasks[u].completed
         /\ RunTaskPhase("post_approve", Cur, u, EmptyMap, f).raised)
            => C14_Failed(u, RegistrationDetail_post(Cur, Admin, u, TRUE, f))

\* The Token row with id `id` (NoToken: there is none).
TokenRow(id) ==
    IF TokenById(Cur, id) = {} THEN NoToken
    ELSE CHOOSE t \in TokenById(Cur, id) : TRUE

C15_Ordered(t, res) ==
    IF t = NoToken
    THEN res.resp = Response(404, "This token does not exist.")
         /\ res.st = Cur
    ELSE IF tasks[t.registration].completed
    THEN res.resp = Response(400, "already completed") /\ res.st = Cur
    ELSE t.expired
            => /\ res.resp = Response(400, "This token has expired.")
               /\ res.st.w.hist.submit = hist.submit

\* C15: a redemption answers not-found for an unknown token id; else
\* already-completed when the Token's Task is completed, also for an expired
\* Token, which is then kept; else the expiry error for an expired Token.
\* None of the three runs submit on an action.
C15_PreconditionOrder ==
    \A id \in TokenIds, d \in TokenData :
        C15_Ordered(TokenRow(id), Redeem(Cur, id, d))

\* An expired Token of a completed Task: its redemption is answered
\* already-completed and the Token stays.
C15_Witness ==
    \E t \in tokens :
        /\ t.expired
        /\ tasks[t.registration].completed
        /\ Redeem(Cur, t.token, [password |-> "pw1"]).resp
              = Response(400, "already completed")
        /\ t \in Redeem(Cur, t.token, [password |-> "pw1"]).st.tokens
        /\ \E id \in TokenIds : TokenRow(id) = NoToken

C16_Expired(t, res) ==
    /\ res.resp = Response(400, "This token has expired.")
    /\ res.st = [Cur EXCEPT !.tokens = @ \ {t}]
    /\ TokenDetail_get(res.st, t.token).resp
          = Response(404, "This token does not exist.")
    /\ Redeem(res.st, t.token, [password |-> "pw1"]).resp
          = Response(404, "This token does not exist.")

\* C16: looking up or redeeming an expired Token of a Task that is not
\* completed deletes the Token and nothing else (no submit runs, the Task's
\* flags stay), answers the expiry error, and a later lookup of the id
\* answers not-found; no redemption of an expired Token runs submit.
C16_ExpiredTokenDeleted ==
    /\ \A t \in tokens :
          (t.expired /\ ~tasks[t.registration].completed)
              => /\ C16_Expired(t, TokenDetail_get(Cur, t.token))
                 /\ \A d \in TokenData :
                       C16_Expired(t, Redeem(Cur, t.token, d))
    /\ \A t \in tokens, d \in TokenData :
          t.expired
              => Redeem(Cur, t.token, d).st.w.hist.submit = hist.submit

\* An expired Token of an approved Task that is not completed; its lookup
\* answers the expiry error.
C16_Witness ==
    \E t \in tokens :
        /\ t.expired
        /\ tasks[t.registration].approved
        /\ ~tasks[t.registration].completed
        /\ TokenDetail_get(Cur, t.token).resp
              = Response(400, "This token has expired.")
        /\ t \notin TokenDetail_get(Cur, t.token).st.tokens

\* The union of the token_fields of the actions of Task u.
TokenFieldsOf(u) ==
    UNION {token_fields(tasks[u].actions[i].action_name) :
              i \in 1..Len(tasks[u].actions)}

C17_Refused(missing, res) ==
    res.resp = FieldResponse(missing) /\ res.st = Cur

\* C17: a redemption whose payload lacks a field of the union of the
\* token_fields of the Task's actions answers a per-field error for each
\* missing field and changes nothing: no submit runs, the Token is kept and
\* the Task stays not completed, so the Token can still be redeemed.
C17_MissingFieldsKeepToken ==
    \A t \in tokens, d \in TokenData :
        (/\ ~tasks[t.registration].completed
         /\ ~t.expired
         /\ TokenFieldsOf(t.registration) \ DOMAIN d # {})
            => C17_Refused(TokenFieldsOf(t.registration) \ DOMAIN d,
                           Redeem(Cur, t.token, d))

\* A Token of a two-action Task, redeemed without the password: the error
\* names the field, and the redemption with the password is not refused.
C17_Witness ==
    \E t \in tokens :
        /\ Len(tasks[t.registration].actions) = 2
        /\ Redeem(Cur, t.token, EmptyMap).resp = FieldResponse({"password"})
        /\ Redeem(Cur, t.token, [password |-> "pw1"]).resp.status = 200

\* The redemption of Token t with data d is not turned away by a
\* precondition: the Token is found, live, and its Task not completed.
Admitted(t, d) ==
    /\ ~tasks[t.registration].completed
    /\ ~t.expired
    /\ TokenFieldsOf(t.registration) \subseteq DOMAIN d

\* The backend failures that can strike the submit calls behind Token t.
SubmitFaults(t) == FaultsFor({"submit"}, NamesOfToken(t.token))

C18_Failed(t, d, res) ==
    /\ res.resp = ServerError
    /\ Notified(t.registration, res)
    /\ res.st.tokens = tokens
    /\ ~res.st.tasks[t.registration].completed
    /\ Redeem(res.st, t.token, d).resp.status \in {200, 500}

\* C18: when a submit raises during a redemption, a Notification for the
\* Task is recorded, the step-failure result is returned, the Token is kept
\* and the Task stays not completed: a later redemption of the Token is not
\* turned away.
C18_FailedRedemptionKeepsToken ==
    \A t \in tokens, d \in TokenData : \A f \in SubmitFaults(t) :
        (/\ Admitted(t, d)
         /\ RunTaskPhase("submit", Cur, t.registration, d, f).raised)
            => C18_Failed(t, d, TokenDetail_post(Cur, t.token, d, f))

\* A redemption has failed: its Notification is recorded, the Task is not
\* completed, its Token is still there and redeeming it now succeeds.
C18_Witness ==
    \E t \in tokens :
        /\ \E i \in 1..Len(notifications) :
              /\ notifications[i].registration = t.registration
              /\ notifications[i].notes = "error: submitting"
        /\ hist.submit[<<t.registration, 1>>] > 0
        /\ ~tasks[t.registration].completed
        /\ Redeem(Cur, t.token, [password |-> "pw1"]).resp.status = 200

C19_Redeemed(t, res) ==
    /\ res.resp = Response(200, "Token submitted successfully.")
    /\ res.st.tasks[t.registration].completed
    /\ res.st.tasks[t.registration].completed_on = "set"
    /\ t \notin res.st.tokens

C19_AllSubmitted(u, res) ==
    res.st.tasks[u].completed
        => \A i \in 1..Len(tasks[u].actions) :
              res.st.w.hist.submit[<<u, i>>] = hist.submit[<<u, i>>] + 1

\* C19: a redemption with all required fields in which submit returns on
\* every action sets completed and completed_on and deletes the Token; a
\* redemption marks the Task completed only if it called submit on every
\* action.
C19_RedemptionCompletes ==
    \A t \in tokens, d \in TokenData : \A f \in SubmitFaults(t) :
        /\ (/\ Admitted(t, d)
            /\ ~RunTaskPhase("submit", Cur, t.registration, d, f).raised)
              => C19_Redeemed(t, TokenDetail_post(Cur, t.token, d, f))
        /\ ~tasks[t.registration].completed
              => C19_AllSubmitted(t.registration,
                                  TokenDetail_post(Cur, t.token, d, f))

\* A redemption completed a Task after an earlier one had failed on it.
C19_Witness ==
    \E u \in TaskUuids :
        /\ hist.redeemed[u] = 1
        /\ tasks[u].completed
        /\ tasks[u].completed_on = "set"
        /\ TokensOf(Cur, u) = {}
        /\ hist.submit[<<u, 1>>] = 2
        /\ \E i \in 1..Len(notifications) :
              notifications[i] = [registration |-> u,
                                  notes |-> "error: submitting",
                                  acknowledged |-> FALSE]

\* The backend failures that can strike the pre_approve calls of an intake.
IntakeFaults(view) ==
    FaultsFor({"pre_approve"}, ActionNames(view)) \ {NoFault}

\* The requester an intake of the view is tried with.
IntakeRequester(view) == IF view = "AttachUser" THEN Owner ELSE Anonymous

\* The view's handler.
Intake(view, d, f) ==
    CASE view = "CreateProject" -> CreateProject_post(Cur, d, f)
      [] view = "AttachUser" -> AttachUser_post(Cur, Owner, d, f)
      [] view = "ResetPassword" -> ResetPassword_post(Cur, d, f)

C20_Fatal(p, res) ==
    /\ p.fatal
    /\ Len(p.st.tasks) = Len(tasks) + 1
    /\ Notified(Len(tasks) + 1, p)
    /\ ~p.st.tasks[Len(tasks) + 1].approved
    /\ p.st.tokens = tokens
    /\ res.st = p.st
    /\ res.resp.body = "Something went wrong on the server"
    /\ res.resp.errors = {}

\* C20: when a pre_approve raises during process_actions, a Notification
\* with the Task's id is recorded, the caller is answered with the generic
\* server-error message, and the Task the call created stays in the
\* database, not approved and without a Token.
C20_FatalIntakeKeepsTask ==
    \A view \in Views : \A d \in RequestData(view), f \in IntakeFaults(view) :
        FieldErrors(ActionNames(view), d) = {}
            => C20_Fatal(process_actions(Cur, view, d,
                                         IntakeRequester(view), f),
                         Intake(view, d, f))

\* The Task of an intake that failed: in the database with the failure's
\* Notification, not approved, without a Token.
C20_Witness ==
    \E u \in TaskUuids :
        /\ \E i \in 1..Len(notifications) :
              notifications[i] = [registration |-> u,
                                  notes |-> "error: setting up",
                                  acknowledged |-> FALSE]
        /\ ~tasks[u].approved
        /\ ~tasks[u].completed
        /\ hist.create_token[u] = 0
        /\ TokensOf(Cur, u) = {}

\* The notes of the Notifications that record a fatal error; they carry the
\* text of the exception.
ErrorNotes ==
    {"error: setting up", "error: approving", "error: submitting",
     "error: updating"}

\* The request recorded the Notification of a fatal error.
Failed(res) ==
    /\ Len(res.st.notifications) = Len(notifications) + 1
    /\ res.st.notifications[Len(res.st.notifications)].notes \in ErrorNotes

\* The response is the generic server error and not the Notification's notes.
Opaque(res) ==
    Failed(res)
        => /\ res.resp.body = "Something went wrong on the server"
           /\ res.resp.body
                # res.st.notifications[Len(res.st.notifications)].notes

\* C21: when pre_approve, post_approve or submit raises, the caller is
\* answered with the generic server error and never with the notes that
\* carry the exception's message, on the intake, auto-approve, admin-approve,
\* update and redemption paths.
C21_OpaqueFailure ==
    /\ \A view \in Views : \A d \in RequestData(view) :
          \A f \in FaultsFor(AllPhases, ActionNames(view)) :
              Opaque(Intake(view, d, f))
    /\ \A u \in TaskUuids :
          \A f \in FaultsFor({"post_approve", "submit"}, NamesOf(u)) :
              Opaque(RegistrationDetail_post(Cur, Admin, u, TRUE, f))
    /\ \A u \in TaskUuids : \A d \in DataFor(u) :
          \A f \in FaultsFor({"pre_approve"}, NamesOf(u)) :
              Opaque(RegistrationDetail_put(Cur, Admin, u, d, f))
    /\ \A t \in tokens, d \in TokenData : \A f \in SubmitFaults(t) :
          Opaque(TokenDetail_post(Cur, t.token, d, f))

\* The request was turned away with 401 (no credentials) or 403 (no role of
\* the required ones) and the database and the backend are as they were.
Rejected(ks, res) ==
    /\ res.resp.status = (IF ks = Anonymous THEN 401 ELSE 403)
    /\ res.st = Cur

\* C22: a request to an endpoint guarded by admin or admin_or_owner from a
\* caller without credentials (401) or without a required role (403) is
\* rejected before anything runs: no Task, Action, Token or Notification is
\* created, changed or deleted.
C22_GuardBeforeEngine ==
    /\ \A ks \in {Anonymous, Member}, d \in RequestData("AttachUser") :
          Rejected(ks, AttachUser_post(Cur, ks, d, NoFault))
    /\ \A ks \in {Anonymous, Member, Owner} :
          /\ Rejected(ks, TokenList_delete(Cur, ks))
          /\ \A u \in TaskUuids \cup {0} :
                /\ Rejected(ks, RegistrationDetail_post(Cur, ks, u, TRUE,
                                                        NoFault))
                /\ Rejected(ks, TokenList_post(Cur, ks, u))
                /\ \A d \in DataFor(u) :
                      Rejected(ks, RegistrationDetail_put(Cur, ks, u, d,
                                                          NoFault))

\* A database on which each guarded request of an admin would change
\* something, and the same requests of a member are turned away.
C22_Witness ==
    /\ \E t \in tokens : t.expired
    /\ TokenList_delete(Cur, Admin).st # Cur
    /\ TokenList_delete(Cur, Member).resp.status = 403
    /\ \E u \in TaskUuids :
          /\ RegistrationDetail_post(Cur, Admin, u, TRUE, NoFault).st # Cur
          /\ TokenList_post(Cur, Admin, u).st # Cur
          /\ TokenList_post(Cur, Owner, u).resp.status = 403
    /\ \E d \in RequestData("AttachUser") :
          /\ AttachUser_post(Cur, Owner, d, NoFault).st # Cur
          /\ AttachUser_post(Cur, Anonymous, d, NoFault).resp.status = 401

\* A NewUser request for a username the backend does not have, on a project
\* that exists.
C23_Request(d) ==
    /\ "project_id" \in DOMAIN d
    /\ users[d.username] = NoUser
    /\ d.project_id \in projects

\* r1 is the answer to the request, u the Task it made.
C23_Approved(d, u, r1) ==
    /\ r1.resp = Response(200, "created token")
    /\ Len(r1.st.tasks) = u
    /\ Len(r1.st.tasks[u].actions) = 1
    /\ r1.st.tasks[u].actions[1].action_name = "NewUser"
    /\ r1.st.tasks[u].actions[1].action_data = d
    /\ r1.st.tasks[u].approved
    /\ ~r1.st.tasks[u].completed
    /\ TokensOf(r1.st, u) = {[token |-> nextToken + 1, registration |-> u,
                              expired |-> FALSE]}
    /\ r1.st.w.users = users
    /\ r1.st.w.grants = grants

\* r2 is the answer to the redemption of the Task's Token with a password.
C23_Redeemed(d, u, r2) ==
    /\ r2.resp.status = 200
    /\ r2.st.w.users[d.username] = [email |-> d.email, password |-> "pw1"]
    /\ r2.st.w.hist.create_user[d.username] = hist.create_user[d.username] + 1
    /\ r2.st.w.grants = grants \cup {<<d.username, d.role, d.project_id>>}
    /\ r2.st.tasks[u].completed
    /\ TokensOf(r2.st, u) = {}

\* r3 is the answer to the same redemption when the backend fails after the
\* first of its two calls: the user is there, the role is not.
C23_UserFirst(d, u, r3) ==
    /\ r3.resp.status = 500
    /\ r3.st.w.users[d.username] = [email |-> d.email, password |-> "pw1"]
    /\ r3.st.w.grants = grants
    /\ ~r3.st.tasks[u].completed

C23_Steps(d, u, r1) ==
    /\ C23_Approved(d, u, r1)
    /\ C23_Redeemed(d, u, Redeem(r1.st, nextToken + 1, [password |-> "pw1"]))
    /\ \A f \in FaultsFor({"submit"}, <<"NewUser">>) :
          f.point = 2 =>
            C23_UserFirst(d, u, TokenDetail_post(r1.st, nextToken + 1,
                                                 [password |-> "pw1"], f))

\* C23: a NewUser request naming a username absent from the backend, on an
\* existing project the requester may act on, creates the Task and its
\* Action; approve creates a Token and leaves the Task not completed;
\* redeeming the Token with a password calls create_user, then
\* add_user_role, and marks the Task completed.
C23_NewUserScenario ==
    \A ks \in {Admin, Owner}, d \in RequestData("AttachUser") :
        C23_Request(d)
            => C23_Steps(d, Len(tasks) + 1,
                         AttachUser_post(Cur, ks, d, NoFault))

\* The scenario has run: the Task of an AttachUser request was redeemed,
\* the user was created once and holds the role, the Task is completed.
C23_Witness ==
    \E u \in TaskUuids :
        /\ tasks[u].action_view = "AttachUser"
        /\ tasks[u].completed
        /\ hist.redeemed[u] = 1
        /\ hist.create_user["u1"] = 1
        /\ users["u1"].password = "pw1"
        /\ <<"u1", "Member", "p1">> \in grants

\* A NewUser request for a user the backend has, with the same e-mail, on a
\* project that exists.
C24_Request(d) ==
    /\ "project_id" \in DOMAIN d
    /\ users[d.username] # NoUser
    /\ users[d.username].email = d.email
    /\ d.project_id \in projects

\* r is the answer to the request, u the Task it made.
C24_Completed(d, u, r) ==
    /\ r.resp.status = 200
    /\ Len(r.st.tasks) = u
    /\ r.st.tasks[u].actions[1].valid
    /\ ~r.st.tasks[u].actions[1].need_token
    /\ r.st.tasks[u].actions[1].state = "existing"
    /\ r.st.tasks[u].approved
    /\ r.st.tasks[u].completed
    /\ r.st.tokens = tokens
    /\ r.st.nextToken = nextToken
    /\ r.st.w.hist.create_token = hist.create_token
    /\ r.st.w.hist.create_user = hist.create_user
    /\ r.st.w.users = users
    /\ r.st.w.grants = grants \cup {<<d.username, d.role, d.project_id>>}

C25_BothIssued(r1, r2) ==
    /\ r1.st.nextToken = nextToken + 1
    /\ r2.st.nextToken = nextToken + 2
    /\ Len(r2.st.tasks) = Len(tasks) + 2

\* o is the answer to the redemption of the first Token after both requests.
C25_FirstDead(d, st, o) ==
    /\ o.resp.status = 400
    /\ o.st.w.users = users
    /\ Redeem(o.st, nextToken + 2, [password |-> "pw1"]).resp.status = 200
    /\ Redeem(o.st, nextToken + 2, [password |-> "pw1"])
          .st.w.users[d.username].password = "pw1"

C25_Twice(d, r1, r2) ==
    C25_BothIssued(r1, r2)
        => C25_FirstDead(d, r2.st,
                         Redeem(r2.st, nextToken + 1, [password |-> "pw1"]))

\* C25: when a ResetPassword request for the same existing user is made
\* twice in a row, the Token of the first request stops working: redeeming
\* it returns 400 and leaves the password unchanged, while redeeming the
\* second Token succeeds and sets the password.
C25_DuplicateResetKillsFirstToken ==
    \A d \in RequestData("ResetPassword") :
        (users[d.username] # NoUser /\ "email" \in DOMAIN d)
            => C25_Twice(d, ResetPassword_post(Cur, d, NoFault),
                         ResetPassword_post(
                             ResetPassword_post(Cur, d, NoFault).st, d,
                             NoFault))

\* The request was answered with the error and changed nothing.
C26_Refused(res) ==
    /\ res.resp.status = 400
    /\ res.st = Cur

\* Approve, update and redemption on every completed Task are refused.
C26_AllRefused ==
    \A u \in TaskUuids :
        tasks[u].completed
            => /\ C26_Refused(RegistrationDetail_post(Cur, Admin, u, TRUE,
                                                      NoFault))
               /\ \A d \in DataFor(u) \cup {EmptyMap} :
                     C26_Refused(RegistrationDetail_put(Cur, Admin, u, d,
                                                        NoFault))
               /\ \A t \in TokensOf(Cur, u), d \in TokenData :
                     C26_Refused(TokenDetail_post(Cur, t.token, d, NoFault))

\* No step changes a completed Task: its flags, its timestamps, its actions.
C26_Frozen ==
    \A u \in TaskUuids :
        tasks[u].completed
            => /\ u \in 1..Len(tasks')
               /\ tasks'[u] = tasks[u]
               /\ hist'.submit[<<u, 1>>] = hist.submit[<<u, 1>>]
               /\ hist'.submit[<<u, 2>>] = hist.submit[<<u, 2>>]

\* C26: once a Task is completed, approve, update-and-revalidate and token
\* redemption on it are rejected with an error and mutate nothing: no phase
\* runs on its actions, no action data changes, no Token is created or
\* deleted, and the Task's flags and timestamps stay as they were
\* (completed never returns to false).
C26_CompletedTaskFrozen == []C26_AllRefused /\ [][C26_Frozen]_vars

\* A completed Task that still has a Token, so that all three requests can
\* be made on it.
C26_Witness ==
    \E u \in TaskUuids :
        /\ tasks[u].completed
        /\ hist.submit[<<u, 1>>] > 0
        /\ \E t \in TokensOf(Cur, u) :
              /\ ~t.expired
              /\ TokenDetail_post(Cur, t.token, [password |-> "pw1"],
                                  NoFault).resp.status = 400
        /\ RegistrationDetail_post(Cur, Admin, u, TRUE, NoFault).resp.status
              = 400

\* C27: a Token is created only by an approve call that found every action
\* valid and at least one action with need_token = true: in every reachable
\* state each existing Token belongs to an approved Task for which such an
\* approve call took place.
C27_TokenOnlyFromApprove ==
    \A t \in tokens :
        /\ t.registration \in TaskUuids
        /\ tasks[t.registration].approved
        /\ hist.issued[t.registration] > 0

\* The check of the action's class fails on the backend as it is now.
C28_CheckFails(a, ks) ==
    LET d == a.action_data
    IN  CASE a.action_name = "NewUser" ->
                \/ ~("admin" \in ks.roles \/ ks.project_id = d.project_id)
                \/ d.project_id \notin projects
                \/ users[d.username] # NoUser
                   /\ users[d.username].email # d.email
          [] a.action_name = "ResetUser" ->
                \/ users[d.username] = NoUser
                \/ users[d.username].email # d.email
          [] OTHER -> FALSE

\* C28: each validation phase recomputes an action's valid flag from the
\* backend state at that moment: if an action was valid after pre_approve
\* and the check fails when a later phase validates it again, the action's
\* valid flag is false after that phase (NewUser, ResetUser).
C28_ValidRecomputed ==
    \A u \in TaskUuids : \A i \in 1..Len(tasks[u].actions) :
        (tasks[u].actions[i].valid
         /\ C28_CheckFails(tasks[u].actions[i], tasks[u].keystone_user))
            => \A phase \in {"pre_approve", "post_approve"} :
                  ~PhaseCall(phase, tasks[u].actions[i],
                             tasks[u].keystone_user, Cur.w, EmptyMap,
                             -1).act.valid

\* r1 is the first pre_approve of an action on the backend as it is; the
\* second one, on what the first left, changes neither the action nor the
\* backend.
C29_SecondRunSame(ks, r1) ==
    /\ ~r1.raised
    /\ r1.w = Cur.w
    /\ PhaseCall("pre_approve", r1.act, ks, r1.w, EmptyMap, -1) = r1

C29_Idempotent(a, ks) ==
    C29_SecondRunSame(ks, PhaseCall("pre_approve", a, ks, Cur.w, EmptyMap,
                                    -1))

\* C29: running pre_approve a second time on an action whose data and whose
\* backend state are unchanged leaves valid, state and need_token as the
\* first run left them and performs no backend mutation, for NewUser,
\* NewProject and ResetUser.
C29_PreApproveIdempotent ==
    /\ \A u \in TaskUuids : \A i \in 1..Len(tasks[u].actions) :
          C29_Idempotent(tasks[u].actions[i], tasks[u].keystone_user)
    /\ \A view \in Views, ks \in {Admin, Owner, Anonymous} :
          \A d \in RequestData(view) :
              FieldErrors(ActionNames(view), d) = {}
                => \A i \in 1..Len(ActionNames(view)) :
                      C29_Idempotent(FreshActions(ActionNames(view), d)[i],
                                     ks)

\* A project request waits for approval: pre_approve found its action valid
\* and a second pre_approve finds the same; a user request and a password
\* request are stored as well.
C29_Witness ==
    /\ \E u \in TaskUuids :
          /\ tasks[u].action_view = "CreateProject"
          /\ ~tasks[u].approved
          /\ tasks[u].actions[1].valid
          /\ PhaseCall("pre_approve", tasks[u].actions[1],
                       tasks[u].keystone_user, Cur.w, EmptyMap, -1)
                = Returned(tasks[u].actions[1], Cur.w)
    /\ \E u \in TaskUuids : tasks[u].action_view # "CreateProject"

\* The order indexes of a Task's actions are their positions in the
\* configured list of the Task's view (an intake that failed half way left
\* the Task with the first actions of the list only).
C30_Positions ==
    \A u \in TaskUuids :
        /\ Len(tasks[u].actions) <= Len(ActionNames(tasks[u].action_view))
        /\ \A i \in 1..Len(tasks[u].actions) :
              /\ tasks[u].actions[i].order = i - 1
              /\ tasks[u].actions[i].action_name
                    = ActionNames(tasks[u].action_view)[i]

\* r is one run of a phase over the actions of Task u: the actions called
\* are those up to the one that raised, or all; no later one was touched.
C30_Prefix(u, phase, r) ==
    \A i \in 1..Len(tasks[u].actions) :
        IF r.raised /\ i > r.at
        THEN /\ r.acts[i] = tasks[u].actions[i]
             /\ r.w.hist.submit[<<u, i>>] = hist.submit[<<u, i>>]
        ELSE r.w.hist.submit[<<u, i>>]
                = hist.submit[<<u, i>>] + (IF phase = "submit" THEN 1 ELSE 0)

\* C30: within one invocation the phase method is called on a Task's
\* actions strictly in ascending order index: the call on an action never
\* starts before the call on every action of the Task with a smaller order
\* has returned, and the order indexes of a Task's actions are pairwise
\* distinct and equal to their positions in the configured action list.
C30_AscendingOrder ==
    /\ C30_Positions
    /\ \A u \in TaskUuids : hist.submit[<<u, 2>>] <= hist.submit[<<u, 1>>]
    /\ \A u \in TaskUuids, phase \in AllPhases, d \in TokenData :
          \A f \in FaultsFor({phase}, NamesOf(u)) :
              C30_Prefix(u, phase, RunTaskPhase(phase, Cur, u, d, f))

\* A Task of two actions whose first submit failed at the first action and
\* whose second submit called both.
C30_Witness ==
    \E u \in TaskUuids :
        /\ Len(tasks[u].actions) = 2
        /\ hist.submit[<<u, 1>>] = 2
        /\ hist.submit[<<u, 2>>] = 1
        /\ tasks[u].completed

\* The last Notification of res is new and carries the given notes.
C31_Noted(u, res, notes) ==
    /\ Notified(u, res)
    /\ res.st.notifications[Len(res.st.notifications)].notes = notes

\* submit was called on action i of Task u in the request answered by res.
C31_Called(u, res, i) ==
    res.st.w.hist.submit[<<u, i>>] = hist.submit[<<u, i>>] + 1

\* res answers an approval of Task u (not completed before) in which the
\* backend failed at f.
C31_Outcome(u, res, f) ==
    /\ \A i \in 1..Len(res.st.tasks[u].actions) :
          \/ C31_Called(u, res, i)
          \/ res.st.w.hist.submit[<<u, i>>] = hist.submit[<<u, i>>]
    /\ (\E i \in 1..Len(res.st.tasks[u].actions) : C31_Called(u, res, i))
          => /\ ~C31_Noted(u, res, "error: approving")
             /\ f.phase # "post_approve"
             /\ res.st.w.hist.issued[u] = hist.issued[u]
             /\ C31_Called(u, res, 1)
    /\ res.st.tasks[u].completed
          => /\ \A i \in 1..Len(res.st.tasks[u].actions) :
                   C31_Called(u, res, i)
             /\ res.resp.status = 200
             /\ res.st.notifications = notifications
    /\ C31_Noted(u, res, "error: submitting")
          => /\ ~res.st.tasks[u].completed
             /\ res.resp.status = 500
             /\ \A i \in 1..Len(res.st.tasks[u].actions) :
                   (f.phase = "submit" /\ i > f.idx) => ~C31_Called(u, res, i)

ActionData(st, u) ==
    [i \in 1..Len(st.tasks[u].actions) |-> st.tasks[u].actions[i].action_data]

\* C32: an Action's data changes after its creation only through the update
\* path, and only while the Task is not yet approved: an update request on
\* a Task with approved = true leaves every action's data unchanged.
C32_NoUpdateAfterApproval ==
    \A u \in TaskUuids :
        tasks[u].approved
            => \A d \in DataFor(u) :
                  ActionData(RegistrationDetail_put(Cur, Admin, u, d,
                                                    NoFault).st, u)
                      = ActionData(Cur, u)

\* The Task of the Token t can be redeemed: it is not completed and t has
\* not expired.
C33_Redeemable(t) ==
    /\ ~tasks[t.registration].completed
    /\ ~t.expired

\* C33: whenever NewProject.submit finds the action valid and reads
\* project_id from the action's cache, the cache holds the id of the
\* project created by an earlier post_approve of that same action, after
\* any sequence of approve, token reissue and redemption calls, so that the
\* cache read never fails.
C33_CacheHoldsProject ==
    \A t \in tokens :
        C33_Redeemable(t)
            => \A i \in 1..Len(tasks[t.registration].actions) :
                  LET a == tasks[t.registration].actions[i]
                  IN  (a.action_name = "NewProject"
                       /\ NewProject_validate_user(a, Cur.w).valid)
                          => /\ "project_id" \in DOMAIN a.cache
                             /\ a.cache.project_id \in projects
                             /\ hist.create_project[a.cache.project_id] > 0

\* res answers a reissue for the approved Task u: one Token, a new one, is
\* the Task's, its earlier ones are not found, those of other Tasks stay.
C34_Reissued(u, res) ==
    /\ res.resp.status = 200
    /\ Cardinality(TokensOf(res.st, u)) = 1
    /\ TokensOf(res.st, u) \cap tokens = {}
    /\ \A t \in TokensOf(res.st, u) :
          \A o \in tokens : o.token # t.token
    /\ \A o \in TokensOf(Cur, u) :
          /\ TokenDetail_get(res.st, o.token).resp.status = 404
          /\ \A d \in TokenData :
                TokenDetail_post(res.st, o.token, d, NoFault).resp.status
                    = 404
    /\ res.st.tokens \ TokensOf(res.st, u) = tokens \ TokensOf(Cur, u)

C34_Rejected(res) ==
    /\ res.resp.status \in {400, 404}
    /\ res.st = Cur

\* C34: reissuing a token for an approved Task deletes every existing Token
\* of that Task and creates exactly one new Token, so that right after the
\* reissue the Task has exactly one Token and every token id issued earlier
\* for it gives not-found; a reissue for a Task that is not approved, or for
\* an unknown Task id, is rejected and leaves all Tokens unchanged.
C34_ReissueReplaces ==
    \A u \in 0..(Len(tasks) + 1) :
        IF u \in TaskUuids /\ tasks[u].approved
        THEN C34_Reissued(u, TokenList_post(Cur, Admin, u))
        ELSE C34_Rejected(TokenList_post(Cur, Admin, u))

\* A Task whose first Token was replaced by a reissue, and a Task that is
\* not approved.
C34_Witness ==
    /\ \E u \in TaskUuids :
          /\ hist.issued[u] = 1
          /\ hist.create_token[u] = 2
          /\ Cardinality(TokensOf(Cur, u)) = 1
          /\ TokenList_post(Cur, Admin, u).st.nextToken = nextToken + 1
    /\ \E u \in TaskUuids :
          /\ ~tasks[u].approved
          /\ TokenList_post(Cur, Admin, u).resp.status = 400

\* res answers a CreateProject request that was accepted: the Task is new
\* and one unacknowledged Notification that references it was recorded.
C35_Recorded(res) ==
    res.resp.status = 200
        => /\ Len(res.st.tasks) = Len(tasks) + 1
           /\ Len(res.st.notifications) = Len(notifications) + 1
           /\ res.st.notifications[Len(res.st.notifications)].registration
                 = Len(res.st.tasks)
           /\ ~res.st.notifications[Len(res.st.notifications)].acknowledged

\* The listing returns the unacknowledged Notifications and no other.
C35_Listed ==
    /\ NotificationList_get(Cur, Admin).resp.status = 200
    /\ \A pk \in 1..Len(notifications) :
          ~notifications[pk].acknowledged
            <=> \E k \in 1..Len(NotificationList_get(Cur, Admin).note_list) :
                   NotificationList_get(Cur, Admin).note_list[k]
                       = notifications[pk]
    /\ \A k \in 1..Len(NotificationList_get(Cur, Admin).note_list) :
          ~NotificationList_get(Cur, Admin).note_list[k].acknowledged

\* Both acknowledging requests set the flag of the rows they name.
C35_Acknowledged ==
    \A pk \in 1..Len(notifications) :
        /\ NotificationDetail_post(Cur, Admin, pk, TRUE).st
              = [Cur EXCEPT !.notifications[pk].acknowledged = TRUE]
        /\ NotificationList_post(Cur, Admin, {pk}).st
              = [Cur EXCEPT !.notifications[pk].acknowledged = TRUE]

\* The request answered by res deleted no Notification, rewrote none and
\* took no acknowledgement back.
C35_Kept(res) ==
    /\ Len(res.st.notifications) >= Len(notifications)
    /\ \A pk \in 1..Len(notifications) :
          /\ res.st.notifications[pk].registration
                = notifications[pk].registration
          /\ res.st.notifications[pk].notes = notifications[pk].notes
          /\ notifications[pk].acknowledged
                => res.st.notifications[pk].acknowledged

C35_AllKept ==
    /\ \A view \in Views : \A d \in RequestData(view) :
          \A f \in FaultsFor(AllPhases, ActionNames(view)) :
              C35_Kept(Intake(view, d, f))
    /\ \A u \in TaskUuids : \A f \in FaultsFor(AllPhases, NamesOf(u)) :
          /\ C35_Kept(RegistrationDetail_post(Cur, Admin, u, TRUE, f))
          /\ C35_Kept(TokenList_post(Cur, Admin, u))
          /\ \A d \in DataFor(u) :
                C35_Kept(RegistrationDetail_put(Cur, Admin, u, d, f))
    /\ C35_Kept(TokenList_delete(Cur, Admin))
    /\ \A t \in tokens :
          /\ C35_Kept(TokenDetail_get(Cur, t.token))
          /\ \A d \in TokenData : \A f \in SubmitFaults(t) :
                C35_Kept(TokenDetail_post(Cur, t.token, d, f))
    /\ \A pk \in NoteKeys, acknowledged \in BOOLEAN :
          C35_Kept(NotificationDetail_post(Cur, Admin, pk, acknowledged))
    /\ \A note_list \in SUBSET NoteKeys :
          C35_Kept(NotificationList_post(Cur, Admin, note_list))

\* C35: every successful CreateProject intake records one unacknowledged
\* Notification that references the Task it created, and that Notification
\* is returned by the notification listing until it is acknowledged;
\* acknowledging sets acknowledged = true and no operation deletes a
\* Notification or sets acknowledged back to false.
C35_NotificationsKept ==
    /\ \A d \in RequestData("CreateProject") :
          \A f \in FaultsFor({"pre_approve"}, ActionNames("CreateProject")) :
              C35_Recorded(CreateProject_post(Cur, d, f))
    /\ C35_Listed
    /\ C35_Acknowledged
    /\ C35_AllKept

\* The Notification of a project request was acknowledged; a later one, of
\* a failure on the same Task, is not and is the only one listed.
C35_Witness ==
    /\ Len(notifications) = 2
    /\ notifications[1] = [registration |-> 1,
                           notes |-> "New registration for CreateProject.",
                           acknowledged |-> TRUE]
    /\ ~notifications[2].acknowledged
    /\ NotificationList_get(Cur, Admin).note_list = <<notifications[2]>>

\* C36: whenever a Task is marked completed, by approve or by token
\* redemption, every one of its actions has valid = true at that moment: a
\* Task is never completed while an action's submit skipped its backend
\* mutation because the action was invalid.
C36_CompletedOnlyValid ==
    [][\A u \in TaskUuids :
          (~tasks[u].completed /\ tasks'[u].completed)
              => AllValid(tasks'[u].actions)]_vars

\* C37: every persisted Task has exactly one Action for each configured
\* action name of its endpoint, with order indexes 0..n-1, in every
\* reachable state, including after a process_actions call in which
\* pre_approve raised a fatal error on one of the actions.
C37_AllActionsPersisted ==
    \A u \in TaskUuids :
        /\ Len(tasks[u].actions) = Len(ActionNames(tasks[u].action_view))
        /\ \A i \in 1..Len(tasks[u].actions) :
              /\ tasks[u].actions[i].action_name
                    = ActionNames(tasks[u].action_view)[i]
              /\ tasks[u].actions[i].order = i - 1

\* C38: no Token is ever created for a Task that is already completed,
\* whether through approve or through token reissue: a Token created after
\* its Task's completed_on does not exist.
C38_NoTokenAfterCompletion ==
    [][\A u \in TaskUuids :
          tasks[u].completed
              => /\ hist'.create_token[u] = hist.create_token[u]
                 /\ TokensOf([tokens |-> tokens'], u) \subseteq TokensOf(Cur, u)
      ]_vars

\* The Tasks that hold an action of one of the classes `names` for user n.
C39_TasksFor(names, n) ==
    {u \in TaskUuids :
        \E i \in 1..Len(tasks[u].actions) :
            /\ tasks[u].actions[i].action_name \in names
            /\ tasks[u].actions[i].action_data.username = n}

\* C39: over all redemption and approve attempts on one Task, including a
\* retry after an attempt in which a later action's submit raised a fatal
\* error, each action's submit performs its backend mutation (create_user,
\* password update) at most once: the backend saw no more mutations than
\* there are Tasks asking for them.
C39_MutationAtMostOnce ==
    \A n \in Usernames :
        /\ hist.update_user_password[n]
              <= Cardinality(C39_TasksFor({"ResetUser"}, n))
        /\ hist.create_user[n]
              <= Cardinality(C39_TasksFor({"NewUser", "NewProject"}, n))

\* res answers an update of Task u with the data d: the data of the actions
\* is all new when the answer is the updated outcome, all old otherwise.
C40_AllOrNothing(u, d, res) ==
    IF res.resp.status = 200
    THEN \A i \in 1..Len(tasks[u].actions) :
            res.st.tasks[u].actions[i].action_data
                = validated_data(tasks[u].actions[i].action_name, d)
    ELSE ActionData(res.st, u) = ActionData(Cur, u)

\* C40: an update-and-revalidate call is all-or-nothing on action data:
\* when it returns field errors or a server error, every action of the Task
\* still holds the data it had before the call; the data of all actions is
\* replaced only when the call returns the updated outcome.
C40_UpdateAllOrNothing ==
    \A u \in TaskUuids :
        \A d \in DataFor(u) \cup {EmptyMap} :
            \A f \in FaultsFor({"pre_approve"}, NamesOf(u)) :
                C40_AllOrNothing(u, d, RegistrationDetail_put(Cur, Admin, u,
                                                              d, f))

====
